---- MODULE Spec2Model ----
(***************************************************************************)
(* RSVP / survey submission engine of simple-invites.                      *)
(*                                                                         *)
(* The committed database is the pair (subs, resps).  Every request runs   *)
(* in its own SQLAlchemy session (autoflush off): writes become visible    *)
(* to other requests only when the handler calls db.commit(); when the     *)
(* handler raises, get_db closes the session and the transaction is rolled *)
(* back.  Spec runs one request at a time (a single server process: the    *)
(* handlers are coroutines without an await).  SpecConc runs update_rsvp   *)
(* of several server processes statement by statement, and SpecSnapshot    *)
(* get_event_rsvp_stats query by query, against one PostgreSQL database    *)
(* (READ COMMITTED).  The other specifications run the parts that have     *)
(* state of their own: the validators, the rate limiters, the admin's      *)
(* tables, the access codes.                                               *)
(***************************************************************************)
EXTENDS Integers, Sequences, FiniteSets, TLC

\* ---------------------------------------------------------------- bounds
MaxOps == 3

\* A nullable string column or field that holds no value.
NULL == "NULL"
\* Nullable values of the other types: None, or Some(x).
None == <<>>
Some(x) == <<x>>

\* ------------------------------------------------------ JSON answer values
\* One record shape for every JSON value: t is the Python type, s the text
\* of a string, n the length of a string or the value of a number, ws tells
\* a string of whitespace only, items the elements of a list or the
\* <<key, value>> pairs of a dict.
JNull == [t |-> "null", s |-> "", n |-> 0, ws |-> FALSE, items |-> <<>>]
JStr(s, n, ws) == [t |-> "str", s |-> s, n |-> n, ws |-> ws, items |-> <<>>]
JBool(b) == [t |-> "bool", s |-> "", n |-> IF b THEN 1 ELSE 0, ws |-> FALSE, items |-> <<>>]
JInt(n) == [t |-> "int", s |-> "", n |-> n, ws |-> FALSE, items |-> <<>>]
JList(items) == [t |-> "list", s |-> "", n |-> Len(items), ws |-> FALSE, items |-> items]
JDict(pairs) == [t |-> "dict", s |-> "", n |-> Len(pairs), ws |-> FALSE, items |-> pairs]

StrA == JStr("a", 1, FALSE)
StrB == JStr("b", 1, FALSE)
StrEmpty == JStr("", 0, FALSE)
StrOther == JStr("other", 5, FALSE)
StrYes == JStr("yes", 3, FALSE)
StrNo == JStr("no", 2, FALSE)
StrValue == JStr("value", 5, FALSE)
StrValues == JStr("values", 6, FALSE)
StrOtherText == JStr("other_text", 10, FALSE)

\* ------------------------------------------------------ program constants
MAX_TEXT_ANSWER_LENGTH == 10000
MAX_DATETIME_ANSWER_LENGTH == 100
MAX_MATRIX_SELECTIONS == 100
MAX_MATRIX_ITEM_LENGTH == 200
MAX_MATRIX_ROWS_one_more == MAX_MATRIX_SELECTIONS + 1
MAX_MATRIX_ROWS == 100

\* --------------------------------------------------- Python value helpers
IsStr(x) == x.t = "str"
\* len(x.strip())
StripLen(x) == IF x.ws THEN 0 ELSE x.n
\* Python ==: True == 1 and False == 0, everything else by type and content
PyEq(x, y) ==
    IF x.t \in {"bool", "int"} /\ y.t \in {"bool", "int"} THEN x.n = y.n
    ELSE x.t = y.t /\ x = y
\* x in list
PyIn(x, list) == \E i \in 1..Len(list) : PyEq(list[i], x)
\* "key" in dict
HasKey(d, k) == \E i \in 1..Len(d.items) : d.items[i][1] = k
\* dict.get(key, default)
DictGet(d, k, default) ==
    IF HasKey(d, k)
    THEN d.items[CHOOSE i \in 1..Len(d.items) : d.items[i][1] = k][2]
    ELSE default
All(list, P(_)) == \A i \in 1..Len(list) : P(list[i])

\* (other_text is a str, non-blank, within the limit)
OtherTextOk(other_text) ==
    /\ IsStr(other_text)
    /\ StripLen(other_text) > 0
    /\ other_text.n <= MAX_TEXT_ANSWER_LENGTH

ChoiceAllowed(item, options, allow_other) ==
    \/ PyIn(item, options[1])
    \/ (PyEq(item, StrOther) /\ allow_other)

\* (a string counts as empty only when it has no character)
is_empty_without_strip(answer) ==
    \/ answer.t = "null"
    \/ (IsStr(answer) /\ answer.n = 0)
    \/ (answer.t = "list" /\ answer.n = 0)
    \/ (answer.t = "dict" /\ answer.n = 0)

\* surveys.py 144-149
is_empty(answer) ==
    \/ answer.t = "null"
    \/ (IsStr(answer) /\ StripLen(answer) = 0)
    \/ (answer.t = "list" /\ answer.n = 0)
    \/ (answer.t = "dict" /\ answer.n = 0)

\* (the selection of "other" is never refused)
other_never_refused(values, allow_other) == FALSE

\* surveys.py 187-189 and 205-206: "other" in values and not allow_other
other_refused(values, allow_other) == PyIn(StrOther, values) /\ ~allow_other

\* _validate_answer(question_type, answer, options, required, allow_other);
\* options is None or Some(list of strings).
_validate_answer(question_type, answer, options, required, allow_other) ==
    IF is_empty(answer) THEN ~required
    ELSE IF question_type = "text" THEN
        IsStr(answer) /\ answer.n <= MAX_TEXT_ANSWER_LENGTH
    ELSE IF question_type = "multiple_choice" THEN
        IF answer.t = "dict" /\ HasKey(answer, StrValue) THEN
            LET value == DictGet(answer, StrValue, JNull) IN
            IF PyEq(value, StrOther) THEN
                IF ~allow_other THEN FALSE
                ELSE OtherTextOk(DictGet(answer, StrOtherText, StrEmpty))
            ELSE IsStr(value) /\ (options = None \/ PyIn(value, options[1]))
        ELSE IF PyEq(answer, StrOther) THEN allow_other
        ELSE IsStr(answer) /\ (options = None \/ PyIn(answer, options[1]))
    ELSE IF question_type = "checkbox" THEN
        IF answer.t = "dict" /\ HasKey(answer, StrValues) THEN
            LET values == DictGet(answer, StrValues, JList(<<>>)) IN
            IF values.t # "list" \/ values.n = 0 THEN FALSE
            ELSE IF other_refused(values.items, allow_other) THEN FALSE
            ELSE IF PyIn(StrOther, values.items)
                    /\ ~OtherTextOk(DictGet(answer, StrOtherText, StrEmpty)) THEN FALSE
            ELSE /\ All(values.items, IsStr)
                 /\ (options = None
                     \/ All(values.items, LAMBDA item : ChoiceAllowed(item, options, allow_other)))
        ELSE IF answer.t # "list" \/ answer.n = 0 THEN FALSE
        ELSE IF other_refused(answer.items, allow_other) THEN FALSE
        ELSE /\ All(answer.items, IsStr)
             /\ (options = None
                 \/ All(answer.items, LAMBDA item : ChoiceAllowed(item, options, allow_other)))
    ELSE IF question_type = "yes_no" THEN
        answer.t = "bool" \/ PyIn(answer, <<StrYes, StrNo, JBool(TRUE), JBool(FALSE)>>)
    ELSE IF question_type = "date_time" THEN
        IsStr(answer) /\ StripLen(answer) > 0 /\ answer.n <= MAX_DATETIME_ANSWER_LENGTH
    ELSE IF question_type = "matrix" THEN
        IF answer.t # "list" THEN FALSE
        ELSE IF answer.n = 0 THEN ~required
        ELSE IF answer.n > MAX_MATRIX_SELECTIONS THEN FALSE
        ELSE All(answer.items, LAMBDA item :
                 IsStr(item) /\ StripLen(item) > 0 /\ item.n <= MAX_MATRIX_ITEM_LENGTH)
    ELSE IF question_type = "matrix_single" THEN
        IF answer.t # "dict" THEN FALSE
        ELSE IF answer.n = 0 THEN ~required
        ELSE IF answer.n > MAX_MATRIX_ROWS THEN FALSE
        ELSE All(answer.items, LAMBDA kv :
                 /\ IsStr(kv[1]) /\ IsStr(kv[2])
                 /\ StripLen(kv[1]) > 0 /\ kv[1].n <= MAX_MATRIX_ITEM_LENGTH
                 /\ StripLen(kv[2]) > 0 /\ kv[2].n <= MAX_MATRIX_ITEM_LENGTH)
    ELSE FALSE

\* ------------------------------------------------------------------ state
VARIABLES
    subs,      \* survey_submissions: id -> committed row
    resps,     \* question_responses: set of committed rows (with their id)
    subSeq,    \* survey_submissions_id_seq: ids handed out so far
    respSeq,   \* question_responses_id_seq: ids handed out so far
    draws,     \* edit tokens (and salts) drawn so far
    nops,      \* requests served so far
    owner,     \* edit token -> the submission it was minted for
    tx,        \* server process -> its open update_rsvp transaction
    call,      \* a call of _validate_answer: its arguments and its result
    settings,  \* app.core.config.settings, read from the environment at start
    log,       \* the records the logging handlers have written
    stats,    \* the get_event_rsvp_stats call under way: where it is and what it has read
    catalog,  \* the events, surveys and questions tables, and their id sequences
    history,  \* limiter -> client_ip -> every is_allowed call: when, and its result
    clock,    \* time.time(), and how often it was seen to advance
    limiter,  \* rate_limiter and login_rate_limiter: client_ip -> timestamps
    verify,   \* a call of verify_edit_token: its arguments and its result
    last       \* the request served last: its inputs of interest and its response

\* the state outside the tables of submissions and answers that no request
\* for them changes
aside == <<settings, verify, limiter, clock, history, catalog, stats>>
vars == <<subs, resps, subSeq, respSeq, draws, nops, owner, tx, call, last, log, aside>>

\* ------------------------------------------------------------ fixed rows
\* The rows of surveys, events and questions that the tables hold at the
\* start; the submission requests only read them.
\* Event 1 (token "e1") owns survey 1 with a required TEXT question and an
\* optional MULTIPLE_CHOICE question; event 2 (token "e2") owns survey 2
\* with one optional YES_NO question.
Surveys == {[id |-> 1, survey_token |-> "s1"], [id |-> 2, survey_token |-> "s2"]}

Events ==
    {[id |-> 1, invitation_token |-> "e1", survey_id |-> 1, show_rsvp_list |-> TRUE,
      access_code |-> None],
     [id |-> 2, invitation_token |-> "e2", survey_id |-> 2, show_rsvp_list |-> FALSE,
      access_code |-> None]}

QIds == {1, 2, 3, 4}

Questions ==
    [q \in QIds |->
        CASE q = 1 -> [survey_id |-> 1, question_type |-> "text", options |-> None,
                       allow_other |-> FALSE, required |-> TRUE, order |-> 0]
          [] q = 2 -> [survey_id |-> 1, question_type |-> "multiple_choice",
                       options |-> Some(<<StrA, StrB>>),
                       allow_other |-> FALSE, required |-> FALSE, order |-> 1]
          [] q = 3 -> [survey_id |-> 2, question_type |-> "yes_no", options |-> None,
                       allow_other |-> FALSE, required |-> FALSE, order |-> 0]
          [] q = 4 -> [survey_id |-> 2, question_type |-> "text", options |-> None,
                       allow_other |-> FALSE, required |-> FALSE, order |-> 1]]

\* db.query(Question).filter(Question.survey_id == survey_id)
QuestionsOf_any_survey(survey_id) ==
    {q \in QIds : \E row \in catalog.questions : row.id = q}
QuestionsOf(survey_id) ==
    {q \in QIds : /\ Questions[q].survey_id = survey_id
                  /\ \E row \in catalog.questions : row.id = q}

\* ... .order_by(Question.order).all()
RECURSIVE OrderedQuestions(_)
OrderedQuestions(qs) ==
    IF qs = {} THEN <<>>
    ELSE LET first == CHOOSE q \in qs : \A r \in qs :
                          \/ Questions[q].order < Questions[r].order
                          \/ (Questions[q].order = Questions[r].order /\ q <= r)
         IN <<first>> \o OrderedQuestions(qs \ {first})

\* db.query(Survey).filter(Survey.survey_token == survey_token).first()
SurveyByToken(survey_token) ==
    IF \E sv \in catalog.surveys : sv.survey_token = survey_token
    THEN Some(CHOOSE sv \in catalog.surveys : sv.survey_token = survey_token) ELSE None

\* db.query(Survey).filter(Survey.id == survey_id).first()
SurveyById(survey_id) ==
    IF \E sv \in catalog.surveys : sv.id = survey_id
    THEN Some(CHOOSE sv \in catalog.surveys : sv.id = survey_id) ELSE None

\* db.query(Event).filter(Event.invitation_token == invitation_token).first()
EventByToken(invitation_token) ==
    IF \E e \in catalog.events : e.invitation_token = invitation_token
    THEN Some(CHOOSE e \in catalog.events : e.invitation_token = invitation_token)
    ELSE None

\* db.query(Event).filter(Event.id == event_id).first()
EventById(event_id) ==
    IF \E e \in catalog.events : e.id = event_id
    THEN Some(CHOOSE e \in catalog.events : e.id = event_id) ELSE None

\* ---- the same rows as tables that the admin API changes
\* An access code, as the string the client sends or the column holds: a
\* text of n bytes, or the base64 of the bcrypt hash of a text under a salt.
Code(text, n) == [b64 |-> FALSE, salt |-> 0, text |-> text, n |-> n]
BCRYPT_MAX_PASSWORD_BYTES == 72

\* access_code.encode("utf-8")[:BCRYPT_MAX_PASSWORD_BYTES]
Truncated(code) ==
    IF code.n <= BCRYPT_MAX_PASSWORD_BYTES
    THEN code
    ELSE [code EXCEPT !.text = "72 bytes of " \o code.text,
                      !.n = BCRYPT_MAX_PASSWORD_BYTES]

\* base64.b64encode(bcrypt.hashpw(access_code_bytes, salt)).decode("utf-8")
get_access_code_hash(access_code, salt) ==
    [b64 |-> TRUE, salt |-> salt, text |-> Truncated(access_code).text,
     n |-> Truncated(access_code).n]

FixedCatalog ==
    [events |-> Events,
     surveys |-> {[id |-> sv.id, survey_token |-> sv.survey_token,
                   event_id |-> Some(sv.id), description |-> None] : sv \in Surveys},
     questions |-> {[id |-> q, survey_id |-> Questions[q].survey_id,
                     order |-> Questions[q].order] : q \in QIds},
     eventSeq |-> 2, surveySeq |-> 2, questionSeq |-> 4]

\* ---------------------------------------------------------- request inputs
SurveyTokens == {"s1", "s2", "none"}
InvitationTokens == {"e1", "e2", "none"}
\* An answer map (a JSON object, a Python dict) in the order of its keys:
\* a sequence of <<question_id, answer>> pairs with distinct question ids.
AnswerMaps ==
    {<< >>,
     << <<1, StrA>> >>,
     << <<2, StrA>> >>,
     << <<2, StrA>>, <<1, StrEmpty>> >>,
     << <<1, StrA>>, <<3, StrA>> >>}
Keys(m) == {m[i][1] : i \in 1..Len(m)}

\* RSVPCreate / RSVPUpdate bodies (without access_code and survey_responses)
RSVPBody(identity, response, num_attendees, email, phone, comment) ==
    [identity |-> identity, response |-> response, num_attendees |-> num_attendees,
     email |-> email, phone |-> phone, comment |-> comment]
RSVPInputs ==
    {RSVPBody("Ann", "yes", Some(2), "a@x.org", NULL, NULL),
     RSVPBody("Ann", "yes", None, "a@x.org", NULL, NULL),
     RSVPBody("Bob", "maybe", None, NULL, "555", NULL),
     RSVPBody("Bob", "no", Some(1), NULL, NULL, "hi"),
     RSVPBody("Bob", "yes", Some(0), NULL, NULL, NULL)}

\* RSVPBase: num_attendees: int | None = Field(None, ge=1, le=1000)
RSVPSchemaValid(rsvp_data) ==
    \/ rsvp_data.num_attendees = None
    \/ (rsvp_data.num_attendees[1] >= 1 /\ rsvp_data.num_attendees[1] <= 1000)

\* ------------------------------------------------------------- edit tokens
\* generate_edit_token draws 256 random bits; the n-th draw is the token n.
\* The empty string is the token 0.
generate_edit_token(drawn) == drawn + 1

\* bcrypt.hashpw(token[:72], salt): a one-way function of the salt and the
\* token; minted tokens are 43 characters, within the 72 bytes bcrypt reads.
hashpw(token, salt) == <<"bcrypt", salt, token>>

\* get_edit_token_hash(edit_token) with the salt bcrypt.gensalt() drew
get_edit_token_hash(edit_token, salt) == [salt |-> salt, digest |-> hashpw(edit_token, salt)]

\* stored strings that are no hash: the empty string, and one that
\* base64.b64decode or bcrypt.checkpw refuses
EmptyHash == [salt |-> 0, digest |-> <<"", 0, 0>>]
MalformedHash == [salt |-> 0, digest |-> <<"not-a-hash", 0, 0>>]

\* verify_edit_token(plain_token, stored_hash); stored_hash is the nullable
\* column.  An exception of b64decode or checkpw is caught and gives False.
verify_edit_token_of_any_token(plain_token, stored_hash) ==
    IF plain_token = 0 \/ stored_hash = None \/ stored_hash = Some(EmptyHash) THEN FALSE
    ELSE stored_hash[1].digest[1] = "bcrypt"
verify_edit_token(plain_token, stored_hash) ==
    IF plain_token = 0 \/ stored_hash = None \/ stored_hash = Some(EmptyHash) THEN FALSE
    ELSE IF stored_hash[1].digest[1] # "bcrypt" THEN FALSE
    ELSE hashpw(plain_token, stored_hash[1].salt) = stored_hash[1].digest

\* config.py 141-164: the settings the e-mail task reads.  The test suite
\* runs with ENVIRONMENT=testing and no SMTP account.
Settings(ENVIRONMENT, SMTP_EMAIL, SMTP_APP_PASSWORD) ==
    [ENVIRONMENT |-> ENVIRONMENT, SMTP_EMAIL |-> SMTP_EMAIL,
     SMTP_APP_PASSWORD |-> SMTP_APP_PASSWORD]
TestingSettings == Settings("testing", NULL, NULL)
AllSettings ==
    {Settings(e, m, pw) : e \in {"development", "production", "testing"},
                          m \in {NULL, "rsvp@x.org"}, pw \in {NULL, "app-password"}}

NoRequest ==
    [op |-> "none", status |-> 0, sid |-> None, inv |-> NULL, tok |-> 0,
     qids |-> None, data |-> None, err |-> None, body |-> {}]

\* Server processes sharing the database.  A handler is a coroutine without
\* an await, so one process serves one request at a time.
NumProcs == 2
Procs == 1..NumProcs

IdleTx == [pc |-> "idle", inv |-> NULL, tok |-> 0, sid |-> 0, loaded |-> None,
           assigned |-> None, answers |-> None, snapshot |-> {}, gone |-> {}]

\* ---- core/security.py: the two in-memory rate limiters
RATE_LIMIT_MAX_REQUESTS == 100
RATE_LIMIT_WINDOW_SECONDS == 60 * 15
LOGIN_RATE_LIMIT_MAX_ATTEMPTS == 5
LOGIN_RATE_LIMIT_WINDOW_SECONDS == 60 * 15

\* rate_limiter = RateLimiter() and login_rate_limiter = LoginRateLimiter()
Limiters ==
    [rate_limiter |->
         [max_requests |-> RATE_LIMIT_MAX_REQUESTS,
          window_seconds |-> RATE_LIMIT_WINDOW_SECONDS],
     login_rate_limiter |->
         [max_requests |-> LOGIN_RATE_LIMIT_MAX_ATTEMPTS,
          window_seconds |-> LOGIN_RATE_LIMIT_WINDOW_SECONDS]]
LimiterNames == DOMAIN Limiters

ClientIPs == {"10.0.0.1", "10.0.0.2"}

\* self.requests = defaultdict(list): no client has a timestamp yet
NoRequests == [name \in LimiterNames |-> [client_ip \in ClientIPs |-> << >>]]
StartOfTime == [now |-> 0, ticks |-> 0]

\* No get_event_rsvp_stats call is under way.  `yes` is what the first query
\* loaded into the session, `first` the number of RSVP rows when it ran.
NoStats == [pc |-> "idle", inv |-> NULL, event |-> None, yes |-> << >>,
            no_count |-> 0, first |-> 0]

NoVerify == [pc |-> "none", plain_token |-> 0, stored_hash |-> None, result |-> FALSE]

NoCall ==
    [pc |-> "none", question_type |-> "text", answer |-> JNull, options |-> None,
     required |-> FALSE, allow_other |-> FALSE, result |-> FALSE]

Init ==
    /\ call = NoCall
    /\ subs = << >>
    /\ resps = {}
    /\ subSeq = 0
    /\ respSeq = 0
    /\ draws = 0
    /\ nops = 0
    /\ owner = << >>
    /\ tx = [p \in Procs |-> IdleTx]
    /\ last = NoRequest
    /\ log = {}
    /\ settings = TestingSettings
    /\ stats = NoStats
    /\ catalog = FixedCatalog
    /\ history = NoRequests
    /\ clock = StartOfTime
    /\ limiter = NoRequests
    /\ verify = NoVerify

\* --------------------------------------------------------------- sessions
\* A session works on its own view of the tables; db.commit() publishes it.
\* get_db: db.close() in the finally clause ends the transaction; what was
\* not committed is rolled back.
get_db_commit_on_close(committed, work, did_commit) == work
get_db(committed, work, did_commit) == IF did_commit THEN work ELSE committed

\* Session.flush of the pending QuestionResponse objects: INSERT in the
\* order of db.add, ids from the sequence.
InsertResponses(submission_id, added, seq) ==
    {[id |-> seq + i, submission_id |-> submission_id,
      question_id |-> added[i].question_id, answer |-> added[i].answer] :
        i \in 1..Len(added)}

ResponsesOf(rs, submission_id) == {r \in rs : r.submission_id = submission_id}

\* submitted_at = Column(DateTime, default=lambda: datetime.now(UTC)): the
\* time of the INSERT, on a clock that every INSERT of a submission advances.
utcnow == subSeq + 1

NewSubmission(survey_id, now) ==
    [survey_id |-> survey_id, submitted_at |-> now, identity |-> NULL,
     rsvp_response |-> NULL, num_attendees |-> None, email |-> NULL,
     phone |-> NULL, comment |-> NULL, edit_token_hash |-> None]

Put(f, k, v) == [x \in DOMAIN f \cup {k} |-> IF x = k THEN v ELSE f[x]]
Drop(f, k) == [x \in DOMAIN f \ {k} |-> f[x]]

\* ------------------------------------------------------- response bodies
\* (the schema exposes the stored hash)
RSVPResponseSchema_with_hash(id, row) ==
    [id |-> id, survey_id |-> row.survey_id,
     identity |-> IF row.identity = NULL THEN "" ELSE row.identity,
     response |-> IF row.rsvp_response = NULL THEN "no" ELSE row.rsvp_response,
     num_attendees |-> row.num_attendees, email |-> row.email, phone |-> row.phone,
     comment |-> row.comment, submitted_at |-> row.submitted_at,
     edit_token_hash |-> row.edit_token_hash]

\* schemas/rsvp.py RSVPResponse, filled the way the handlers fill it
RSVPResponseSchema(id, row) ==
    [id |-> id, survey_id |-> row.survey_id,
     identity |-> IF row.identity = NULL THEN "" ELSE row.identity,
     response |-> IF row.rsvp_response = NULL THEN "no" ELSE row.rsvp_response,
     num_attendees |-> row.num_attendees, email |-> row.email, phone |-> row.phone,
     comment |-> row.comment, submitted_at |-> row.submitted_at]

\* schemas/rsvp.py RSVPWithEditToken: RSVPResponse plus edit_token
RSVPWithEditToken(id, row, edit_token) ==
    [id |-> id, survey_id |-> row.survey_id,
     identity |-> IF row.identity = NULL THEN "" ELSE row.identity,
     response |-> IF row.rsvp_response = NULL THEN "no" ELSE row.rsvp_response,
     num_attendees |-> row.num_attendees, email |-> row.email, phone |-> row.phone,
     comment |-> row.comment, submitted_at |-> row.submitted_at,
     edit_token |-> edit_token]

\* schemas/submission.py SurveySubmissionResponse (from_attributes)
SurveySubmissionResponse(id, row, rs) ==
    [id |-> id, survey_id |-> row.survey_id, submitted_at |-> row.submitted_at,
     identity |-> row.identity, rsvp_response |-> row.rsvp_response,
     num_attendees |-> row.num_attendees, email |-> row.email, phone |-> row.phone,
     comment |-> row.comment, question_responses |-> ResponsesOf(rs, id)]

\* What a handler did: the HTTP status, the question an error names, the
\* submission it created or addressed, whether it reached db.commit(), the
\* session's view of the tables when it ended, the ids and random draws it
\* consumed, the rows it inserted and the response body.
Outcome(status, err, sid, did_commit, wsubs, wresps, dsub, dresp, ddraw, body) ==
    [status |-> status, err |-> err, sid |-> sid, did_commit |-> did_commit,
     work |-> [subs |-> wsubs, resps |-> wresps],
     dsub |-> dsub, dresp |-> dresp, ddraw |-> ddraw, body |-> body]

\* raise HTTPException before anything was written
Reject(status, err, sid) == Outcome(status, err, sid, FALSE, subs, resps, 0, 0, 0, {})

\* -------------------------------------------- submit_survey_responses
\* surveys.py 63-70: the first question, in display order, that is required
\* and has no key in the answers
RequiredMissing(survey_id, answers) ==
    LET qs == OrderedQuestions(QuestionsOf(survey_id))
        missing == {i \in 1..Len(qs) : Questions[qs[i]].required /\ qs[i] \notin Keys(answers)}
    IN IF missing = {} THEN None
       ELSE Some(qs[CHOOSE i \in missing : \A j \in missing : i <= j])

\* surveys.py 88-97: None and, for an optional question, whitespace become ""
NormalizeText(question, answer) ==
    LET a1 == IF question.question_type = "text" /\ answer.t = "null" THEN StrEmpty ELSE answer
    IN IF question.question_type = "text" /\ ~question.required
          /\ IsStr(a1) /\ StripLen(a1) = 0
       THEN StrEmpty ELSE a1

\* surveys.py 79-123: the loop over submission_data.answers.items()
RECURSIVE SurveyAnswerLoop(_, _, _, _)
SurveyAnswerLoop(survey_id, answers, i, added) ==
    IF i > Len(answers) THEN [ok |-> TRUE, err |-> None, added |-> added]
    ELSE LET question_id == answers[i][1] IN
         IF question_id \notin QuestionsOf(survey_id)
         THEN [ok |-> FALSE, err |-> Some(question_id), added |-> added]
         ELSE LET question == Questions[question_id]
                  answer_to_validate == NormalizeText(question, answers[i][2])
              IN IF ~_validate_answer(question.question_type, answer_to_validate,
                                      question.options, question.required,
                                      question.allow_other)
                 THEN [ok |-> FALSE, err |-> Some(question_id), added |-> added]
                 ELSE SurveyAnswerLoop(survey_id, answers, i + 1,
                          Append(added, [question_id |-> question_id,
                                         answer |-> answer_to_validate]))

SubmitSurveyOutcome(survey_token, answers) ==
    LET survey == SurveyByToken(survey_token) IN
    IF survey = None THEN Reject(404, None, None)
    ELSE IF QuestionsOf(survey[1].id) = {} THEN Reject(400, None, None)
    ELSE IF RequiredMissing(survey[1].id, answers) # None
    THEN Reject(400, RequiredMissing(survey[1].id, answers), None)
    ELSE LET sid == subSeq + 1
             row == NewSubmission(survey[1].id, utcnow)
             flushed == Put(subs, sid, row)
             loop == SurveyAnswerLoop(survey[1].id, answers, 1, <<>>)
             inserted == InsertResponses(sid, loop.added, respSeq)
         IN IF ~loop.ok
            THEN Outcome(400, loop.err, Some(sid), FALSE, flushed, resps \cup inserted,
                         1, 0, 0, {})
            ELSE Outcome(201, None, Some(sid), TRUE, flushed, resps \cup inserted,
                         1, Len(loop.added), 0,
                         {SurveySubmissionResponse(sid, row, inserted)})

\* ---------------------------------------------------------- submit_rsvp
\* (no check of the attendee count)
submit_rsvp_num_attendees_unchecked(rsvp_data) == TRUE

\* events.py 247-259
submit_rsvp_num_attendees_ok(rsvp_data) ==
    IF rsvp_data.response = "yes"
    THEN ~(rsvp_data.num_attendees = None \/ rsvp_data.num_attendees[1] = 0
           \/ rsvp_data.num_attendees[1] < 1)
    ELSE IF rsvp_data.response = "maybe" /\ rsvp_data.num_attendees # None
    THEN ~(rsvp_data.num_attendees[1] < 1)
    ELSE TRUE

\* events.py 291-310: the loop over rsvp_data.survey_responses.items()
RECURSIVE SubmitRsvpLoop(_, _, _, _)
SubmitRsvpLoop(survey_id, answers, i, added) ==
    IF i > Len(answers) THEN [ok |-> TRUE, err |-> None, added |-> added]
    ELSE LET question_id == answers[i][1] IN
         IF question_id \notin QuestionsOf(survey_id)
         THEN SubmitRsvpLoop(survey_id, answers, i + 1, added)
         ELSE LET question == Questions[question_id] IN
              IF ~_validate_answer(question.question_type, answers[i][2],
                                   question.options, question.required,
                                   question.allow_other)
              THEN [ok |-> FALSE, err |-> Some(question_id), added |-> added]
              ELSE SubmitRsvpLoop(survey_id, answers, i + 1,
                       Append(added, [question_id |-> question_id,
                                      answer |-> answers[i][2]]))

\* events.py 266-279: the new row
RsvpSubmission(survey_id, rsvp_data, edit_token_hash, now) ==
    [survey_id |-> survey_id, submitted_at |-> now, identity |-> rsvp_data.identity,
     rsvp_response |-> rsvp_data.response,
     num_attendees |-> IF rsvp_data.response \in {"yes", "maybe"}
                       THEN rsvp_data.num_attendees ELSE None,
     email |-> rsvp_data.email, phone |-> rsvp_data.phone, comment |-> rsvp_data.comment,
     edit_token_hash |-> Some(edit_token_hash)]

\* survey_responses is None or Some(answer map)
SubmitRsvpOutcome(invitation_token, rsvp_data, survey_responses) ==
    LET event == EventByToken(invitation_token) IN
    IF ~RSVPSchemaValid(rsvp_data) THEN Reject(422, None, None)
    ELSE IF event = None THEN Reject(404, None, None)
    ELSE IF ~submit_rsvp_num_attendees_ok(rsvp_data) THEN Reject(400, None, None)
    ELSE LET edit_token == generate_edit_token(draws)
             edit_token_hash == get_edit_token_hash(edit_token, draws + 1)
             sid == subSeq + 1
             row == RsvpSubmission(event[1].survey_id, rsvp_data, edit_token_hash, utcnow)
             flushed == Put(subs, sid, row)
             loop == IF survey_responses # None /\ Len(survey_responses[1]) > 0
                     THEN SubmitRsvpLoop(event[1].survey_id, survey_responses[1], 1, <<>>)
                     ELSE [ok |-> TRUE, err |-> None, added |-> <<>>]
             inserted == InsertResponses(sid, loop.added, respSeq)
         IN IF ~loop.ok
            THEN Outcome(400, loop.err, Some(sid), FALSE, flushed, resps \cup inserted,
                         1, 0, 1, {})
            ELSE Outcome(201, None, Some(sid), TRUE, flushed, resps \cup inserted,
                         1, Len(loop.added), 1,
                         {RSVPWithEditToken(sid, row, edit_token)})

\* ---------------------------------------------------------- get_my_rsvp
\* events.py 360-375: the submissions of the survey that carry a hash and
\* whose hash verifies the token
get_my_rsvp_matches(tsubs, survey_id, edit_token) ==
    {s \in DOMAIN tsubs :
        /\ tsubs[s].survey_id = survey_id
        /\ tsubs[s].edit_token_hash # None
        /\ verify_edit_token(edit_token, tsubs[s].edit_token_hash)}

GetMyRsvpOutcome(sid) ==
    Outcome(200, None, Some(sid), FALSE, subs, resps, 0, 0, 0,
            {RSVPResponseSchema(sid, subs[sid])})

\* ---------------------------------------------------------- update_rsvp
\* (the survey filter is missing)
update_rsvp_matches_any_survey(tsubs, survey_id, edit_token) ==
    {s \in DOMAIN tsubs :
        /\ tsubs[s].edit_token_hash # None
        /\ verify_edit_token(edit_token, tsubs[s].edit_token_hash)}

\* events.py 413-427
update_rsvp_matches(tsubs, survey_id, edit_token) ==
    {s \in DOMAIN tsubs :
        /\ tsubs[s].survey_id = survey_id
        /\ tsubs[s].edit_token_hash # None
        /\ verify_edit_token(edit_token, tsubs[s].edit_token_hash)}

\* events.py 435-447
update_rsvp_num_attendees_ok(rsvp_data) ==
    IF rsvp_data.response = "yes"
    THEN ~(rsvp_data.num_attendees = None \/ rsvp_data.num_attendees[1] = 0
           \/ rsvp_data.num_attendees[1] < 1)
    ELSE IF rsvp_data.response = "maybe" /\ rsvp_data.num_attendees # None
    THEN ~(rsvp_data.num_attendees[1] < 1)
    ELSE TRUE

\* events.py 449-459: the attribute assignments on the loaded object
update_rsvp_assign_adding_attendees(row, rsvp_data) ==
    [row EXCEPT !.identity = rsvp_data.identity,
                !.rsvp_response = rsvp_data.response,
                !.num_attendees = IF rsvp_data.response \in {"yes", "maybe"}
                                  THEN IF rsvp_data.num_attendees = None
                                          \/ row.num_attendees = None
                                       THEN rsvp_data.num_attendees
                                       ELSE Some(row.num_attendees[1]
                                                 + rsvp_data.num_attendees[1])
                                  ELSE None,
                !.email = rsvp_data.email,
                !.phone = rsvp_data.phone,
                !.comment = rsvp_data.comment]
update_rsvp_assign(row, rsvp_data) ==
    [row EXCEPT !.identity = rsvp_data.identity,
                !.rsvp_response = rsvp_data.response,
                !.num_attendees = IF rsvp_data.response \in {"yes", "maybe"}
                                  THEN rsvp_data.num_attendees ELSE None,
                !.email = rsvp_data.email,
                !.phone = rsvp_data.phone,
                !.comment = rsvp_data.comment]

\* events.py 473-492: the loop over rsvp_data.survey_responses.items()
RECURSIVE UpdateRsvpLoop(_, _, _, _)
UpdateRsvpLoop(survey_id, answers, i, added) ==
    IF i > Len(answers) THEN [ok |-> TRUE, err |-> None, added |-> added]
    ELSE LET question_id == answers[i][1] IN
         IF question_id \notin QuestionsOf(survey_id)
         THEN UpdateRsvpLoop(survey_id, answers, i + 1, added)
         ELSE LET question == Questions[question_id] IN
              IF ~_validate_answer(question.question_type, answers[i][2],
                                   question.options, question.required,
                                   question.allow_other)
              THEN [ok |-> FALSE, err |-> Some(question_id), added |-> added]
              ELSE UpdateRsvpLoop(survey_id, answers, i + 1,
                       Append(added, [question_id |-> question_id,
                                      answer |-> answers[i][2]]))

\* Session.flush of a modified object: UPDATE ... SET the columns whose value
\* differs from the value the session loaded, WHERE id = the row's id.
FlushUpdate_with_onupdate(stored, loaded, assigned) ==
    [c \in DOMAIN stored |-> IF c = "submitted_at" THEN stored[c] + 1
                             ELSE IF assigned[c] # loaded[c] THEN assigned[c]
                             ELSE stored[c]]
FlushUpdate(stored, loaded, assigned) ==
    [c \in DOMAIN stored |-> IF assigned[c] # loaded[c] THEN assigned[c] ELSE stored[c]]

\* events.py 464-466: DELETE FROM question_responses WHERE submission_id = :id
BulkDeleteResponses(rs, submission_id) == rs \ ResponsesOf(rs, submission_id)

\* events.py 462: if rsvp_data.survey_responses is not None
answers_provided_and_any(survey_responses) ==
    survey_responses # None /\ Len(survey_responses[1]) > 0
answers_provided(survey_responses) == survey_responses # None

\* (the handler commits before it raises)
UpdateRsvpOutcome_commits(survey_id, sid, rsvp_data, survey_responses) ==
    IF ~update_rsvp_num_attendees_ok(rsvp_data) THEN Reject(400, None, Some(sid))
    ELSE LET assigned == update_rsvp_assign(subs[sid], rsvp_data)
             row == FlushUpdate(subs[sid], subs[sid], assigned)
             wsubs == [subs EXCEPT ![sid] = row]
             kept == IF answers_provided(survey_responses)
                     THEN BulkDeleteResponses(resps, sid) ELSE resps
             loop == IF answers_provided(survey_responses)
                     THEN UpdateRsvpLoop(survey_id, survey_responses[1], 1, <<>>)
                     ELSE [ok |-> TRUE, err |-> None, added |-> <<>>]
             inserted == InsertResponses(sid, loop.added, respSeq)
         IN IF ~loop.ok
            THEN Outcome(400, loop.err, Some(sid), TRUE, wsubs, kept \cup inserted,
                         0, Len(loop.added), 0, {})
            ELSE Outcome(200, None, Some(sid), TRUE, wsubs, kept \cup inserted,
                         0, Len(loop.added), 0, {RSVPResponseSchema(sid, row)})

\* events.py 435-507, once the submission sid has matched the token
UpdateRsvpOutcome(survey_id, sid, rsvp_data, survey_responses) ==
    IF ~update_rsvp_num_attendees_ok(rsvp_data) THEN Reject(400, None, Some(sid))
    ELSE LET assigned == update_rsvp_assign(subs[sid], rsvp_data)
             row == FlushUpdate(subs[sid], subs[sid], assigned)
             wsubs == [subs EXCEPT ![sid] = row]
             kept == IF answers_provided(survey_responses)
                     THEN BulkDeleteResponses(resps, sid) ELSE resps
             loop == IF answers_provided(survey_responses)
                     THEN UpdateRsvpLoop(survey_id, survey_responses[1], 1, <<>>)
                     ELSE [ok |-> TRUE, err |-> None, added |-> <<>>]
             inserted == InsertResponses(sid, loop.added, respSeq)
         IN IF ~loop.ok
            THEN Outcome(400, loop.err, Some(sid), FALSE, wsubs, kept \cup inserted,
                         0, 0, 0, {})
            ELSE Outcome(200, None, Some(sid), TRUE, wsubs, kept \cup inserted,
                         0, Len(loop.added), 0, {RSVPResponseSchema(sid, row)})

\* ---------------------------------------------------------- delete_rsvp
\* admin_events.py 176-201
DeleteRsvpOutcome_keeps_answers(event_id, rsvp_id) ==
    LET event == EventById(event_id) IN
    IF event = None THEN Reject(404, None, None)
    ELSE IF ~(rsvp_id \in DOMAIN subs /\ subs[rsvp_id].survey_id = event[1].survey_id)
    THEN Reject(404, None, None)
    ELSE Outcome(204, None, Some(rsvp_id), TRUE, Drop(subs, rsvp_id),
                 resps, 0, 0, 0, {})
DeleteRsvpOutcome(event_id, rsvp_id) ==
    LET event == EventById(event_id) IN
    IF event = None THEN Reject(404, None, None)
    ELSE IF ~(rsvp_id \in DOMAIN subs /\ subs[rsvp_id].survey_id = event[1].survey_id)
    THEN Reject(404, None, None)
    ELSE Outcome(204, None, Some(rsvp_id), TRUE, Drop(subs, rsvp_id),
                 BulkDeleteResponses(resps, rsvp_id), 0, 0, 0, {})

\* ------------------------------------------------------------ read side
RECURSIVE SumAttendees(_, _)
\* sum(sub.num_attendees or 1 for sub in submissions)
SumAttendees(tsubs, ids) ==
    IF ids = {} THEN 0
    ELSE LET s == CHOOSE x \in ids : TRUE
             n == IF tsubs[s].num_attendees = None \/ tsubs[s].num_attendees[1] = 0
                  THEN 1 ELSE tsubs[s].num_attendees[1]
         IN n + SumAttendees(tsubs, ids \ {s})

\* events.py 140-176, 201-210
WithResponse_of_any_survey(tsubs, survey_id, response) ==
    {s \in DOMAIN tsubs : tsubs[s].rsvp_response = response}
WithResponse(tsubs, survey_id, response) ==
    {s \in DOMAIN tsubs : tsubs[s].survey_id = survey_id /\ tsubs[s].rsvp_response = response}

AttendeeEntries(tsubs, ids) ==
    {[submission |-> s, name |-> tsubs[s].identity,
      num_attendees |-> IF tsubs[s].num_attendees = None \/ tsubs[s].num_attendees[1] = 0
                        THEN 1 ELSE tsubs[s].num_attendees[1]] : s \in ids}

\* events.py 199: if event.show_rsvp_list
attendees_always_shown(event) == TRUE
attendees_shown(event) == event.show_rsvp_list

\* events.py 126-212; the body without the event's own columns
GetStatsOutcome(invitation_token) ==
    LET event == EventByToken(invitation_token) IN
    IF event = None THEN Reject(404, None, None)
    ELSE LET yes_submissions == WithResponse(subs, event[1].survey_id, "yes")
             no_count == Cardinality(WithResponse(subs, event[1].survey_id, "no"))
             maybe_submissions == WithResponse(subs, event[1].survey_id, "maybe")
             counts == [total_rsvps |-> Cardinality(yes_submissions) + no_count
                                        + Cardinality(maybe_submissions),
                        yes_count |-> Cardinality(yes_submissions),
                        yes_attendees |-> SumAttendees(subs, yes_submissions),
                        no_count |-> no_count,
                        maybe_count |-> Cardinality(maybe_submissions),
                        maybe_attendees |-> SumAttendees(subs, maybe_submissions),
                        show_rsvp_list |-> event[1].show_rsvp_list]
             attendees == [yes |-> AttendeeEntries(subs, yes_submissions),
                           maybe |-> AttendeeEntries(subs, maybe_submissions)]
         IN Outcome(200, None, None, FALSE, subs, resps, 0, 0, 0,
                    {IF attendees_shown(event[1])
                     THEN [k \in DOMAIN counts \cup {"attendees"} |->
                              IF k = "attendees" THEN attendees ELSE counts[k]]
                     ELSE counts})

\* admin_events.py 134-165
GetEventRsvpsOutcome(event_id) ==
    LET event == EventById(event_id) IN
    IF event = None THEN Reject(404, None, None)
    ELSE Outcome(200, None, None, FALSE, subs, resps, 0, 0, 0,
                 {RSVPResponseSchema(s, subs[s]) :
                     s \in {x \in DOMAIN subs : /\ subs[x].survey_id = event[1].survey_id
                                                /\ subs[x].rsvp_response # NULL}})

\* admin_surveys.py 255-272
GetSurveySubmissionsOutcome(survey_id) ==
    IF SurveyById(survey_id) = None THEN Reject(404, None, None)
    ELSE Outcome(200, None, None, FALSE, subs, resps, 0, 0, 0,
                 {SurveySubmissionResponse(s, subs[s], resps) :
                     s \in {x \in DOMAIN subs : subs[x].survey_id = survey_id}})

\* ---------------------------------------------------------------- actions
\* One request, from the first line of its handler to the closing of its
\* session.
\* data is the RSVP body of the request, where it has one.
\* --------------------------------------------------- confirmation e-mail
\* One logging.LogRecord: edit_token is Some(t) when the text holds the
\* plaintext of the token t.
LogRecord(level, message, to_email, edit_token) ==
    [level |-> level, message |-> message, to_email |-> to_email,
     edit_token |-> edit_token]

\* email_service.py 16-98: the sets of records one call may write; edit_url
\* ends in "#edit=" and the plaintext edit token.  The SMTP dialogue may
\* succeed or fail, and aiosmtplib may be missing.
send_rsvp_confirmation(to_email, edit_token) ==
    IF settings.ENVIRONMENT = "development"
    THEN {{LogRecord("INFO", "[DEV EMAIL] To", to_email, None),
           LogRecord("INFO", "[DEV EMAIL] Subject", to_email, None),
           LogRecord("INFO", "[DEV EMAIL] Edit URL", to_email, Some(edit_token)),
           LogRecord("INFO", "[DEV EMAIL] Body", to_email, Some(edit_token))}}
    ELSE IF settings.SMTP_EMAIL = NULL \/ settings.SMTP_APP_PASSWORD = NULL
    THEN {{LogRecord("WARNING", "SMTP not configured, skipping email", to_email, None)}}
    ELSE {{LogRecord("ERROR", "aiosmtplib not installed, cannot send email", to_email, None)},
          {LogRecord("INFO", "Sent RSVP confirmation email", to_email, None)},
          {LogRecord("ERROR", "Failed to send email", to_email, None)}}

\* events.py 315-328: the background task of a submit_rsvp that succeeded
\* with an e-mail address; no other request handled here logs anything
BackgroundTasks(op, data, out) ==
    IF op = "submit_rsvp" /\ out.status = 201 /\ data # None /\ data[1].email # NULL
    THEN send_rsvp_confirmation(data[1].email, (CHOOSE b \in out.body : TRUE).edit_token)
    ELSE {{}}

ServeRsvp(op, inv, tok, qids, data, out) ==
    \* the handler runs once: its outcome is one value
    \E done \in {out} :
    \E after \in {get_db([subs |-> subs, resps |-> resps], done.work, done.did_commit)} :
    /\ subs' = after.subs
    /\ resps' = after.resps
    /\ subSeq' = subSeq + done.dsub
    /\ respSeq' = respSeq + done.dresp
    /\ draws' = draws + done.ddraw
    /\ nops' = nops + 1
    /\ tx' = tx
    /\ call' = call
    /\ \E written \in BackgroundTasks(op, data, done) : log' = log \cup written
    /\ UNCHANGED aside
    /\ owner' = IF done.ddraw = 0 THEN owner ELSE Put(owner, draws + 1, done.sid[1])
    /\ last' = [op |-> op, status |-> done.status, sid |-> done.sid, inv |-> inv,
                tok |-> tok, err |-> done.err, body |-> done.body,
                data |-> data,
                qids |-> IF done.status \in {200, 201, 204} THEN qids ELSE None]

Serve(op, inv, tok, qids, out) == ServeRsvp(op, inv, tok, qids, None, out)

MapKeys(survey_responses) ==
    IF survey_responses = None THEN None ELSE Some(Keys(survey_responses[1]))

Optional(answerMaps) == {None} \cup {Some(m) : m \in answerMaps}
OptionalMaps == Optional(AnswerMaps)
\* The answer maps sent along with an RSVP body: every map with the body of
\* a YES for two, no map or a map of one answer with the other bodies.
AnswersWith(rsvp_data, answerMaps) ==
    IF rsvp_data.response = "yes" /\ rsvp_data.num_attendees = Some(2)
    THEN Optional(answerMaps)
    ELSE Optional({m \in answerMaps : Len(m) = 1})

\* Tokens a client may present: the empty one, the minted ones, one never minted.
EditTokens == 0..(draws + 1)

submit_survey_responses_of(answerMaps) ==
    /\ nops < MaxOps
    /\ \E survey_token \in SurveyTokens, answers \in answerMaps :
        Serve("submit_survey_responses", survey_token, 0, Some(Keys(answers)),
              SubmitSurveyOutcome(survey_token, answers))

submit_survey_responses == submit_survey_responses_of(AnswerMaps)

\* A body that fails the schema is answered 422 before the handler runs.
submit_rsvp_of(answerMaps) ==
    /\ nops < MaxOps
    /\ \E invitation_token \in InvitationTokens :
        IF EventByToken(invitation_token) = None
        THEN \E status \in {404} \cup {422 : d \in {x \in RSVPInputs : ~RSVPSchemaValid(x)}} :
                 Serve("submit_rsvp", invitation_token, 0, None, Reject(status, None, None))
        ELSE \E rsvp_data \in RSVPInputs :
             \E survey_responses \in AnswersWith(rsvp_data, answerMaps) :
                 ServeRsvp("submit_rsvp", invitation_token, 0, MapKeys(survey_responses),
                           Some(rsvp_data),
                       SubmitRsvpOutcome(invitation_token, rsvp_data, survey_responses))

submit_rsvp == submit_rsvp_of(AnswerMaps)

get_my_rsvp ==
    /\ nops < MaxOps
    /\ \E invitation_token \in InvitationTokens, edit_token \in EditTokens :
        LET event == EventByToken(invitation_token)
            matches == IF event = None THEN {}
                       ELSE get_my_rsvp_matches(subs, event[1].survey_id, edit_token)
        IN IF matches = {}
           THEN Serve("get_my_rsvp", invitation_token, edit_token, None,
                      Reject(404, None, None))
           ELSE \E sid \in matches :
                    Serve("get_my_rsvp", invitation_token, edit_token, None,
                          GetMyRsvpOutcome(sid))

update_rsvp_of(answerMaps) ==
    /\ nops < MaxOps
    /\ \E invitation_token \in InvitationTokens, edit_token \in EditTokens :
        LET event == EventByToken(invitation_token)
            matches == IF event = None THEN {}
                       ELSE update_rsvp_matches(subs, event[1].survey_id, edit_token)
        IN IF matches = {}
           THEN \E status \in {404} \cup
                              {422 : d \in {x \in RSVPInputs : ~RSVPSchemaValid(x)}} :
                    Serve("update_rsvp", invitation_token, edit_token, None,
                          Reject(status, None, None))
           ELSE \E sid \in matches, rsvp_data \in RSVPInputs :
                \E survey_responses \in AnswersWith(rsvp_data, answerMaps) :
                    IF ~RSVPSchemaValid(rsvp_data)
                    THEN ServeRsvp("update_rsvp", invitation_token, edit_token, None,
                                   Some(rsvp_data), Reject(422, None, None))
                    ELSE ServeRsvp("update_rsvp", invitation_token, edit_token,
                               MapKeys(survey_responses), Some(rsvp_data),
                               UpdateRsvpOutcome(event[1].survey_id, sid, rsvp_data,
                                                 survey_responses))

update_rsvp == update_rsvp_of(AnswerMaps)

\* Rows deleted by the open transaction of another process stay locked until
\* that transaction ends; a DELETE that meets one waits for it.
LockedByOthers(p) == UNION {tx[q].gone : q \in Procs \ {p}}
ResponseIds(rs, submission_id) == {r.id : r \in ResponsesOf(rs, submission_id)}

delete_rsvp ==
    /\ nops < MaxOps
    /\ \E event_id \in {1, 2, 3}, rsvp_id \in 1..MaxOps :
        /\ ResponseIds(resps, rsvp_id) \cap LockedByOthers(0) = {}
        /\ Serve("delete_rsvp",
              IF EventById(event_id) = None THEN "none"
              ELSE EventById(event_id)[1].invitation_token,
              0, None, DeleteRsvpOutcome(event_id, rsvp_id))

get_event_rsvp_stats ==
    /\ nops < MaxOps
    /\ \E invitation_token \in InvitationTokens :
        Serve("get_event_rsvp_stats", invitation_token, 0, None,
              GetStatsOutcome(invitation_token))

get_event_rsvps ==
    /\ nops < MaxOps
    /\ \E event_id \in {1, 2, 3} :
        Serve("get_event_rsvps",
              IF EventById(event_id) = None THEN "none"
              ELSE EventById(event_id)[1].invitation_token,
              0, None, GetEventRsvpsOutcome(event_id))

get_survey_submissions ==
    /\ nops < MaxOps
    /\ \E survey_id \in {1, 2, 3} :
        Serve("get_survey_submissions",
              IF SurveyById(survey_id) = None THEN "none"
              ELSE SurveyById(survey_id)[1].survey_token,
              0, None, GetSurveySubmissionsOutcome(survey_id))

Next ==
    \/ submit_survey_responses
    \/ submit_rsvp
    \/ get_my_rsvp
    \/ update_rsvp
    \/ delete_rsvp
    \/ get_event_rsvp_stats
    \/ get_event_rsvps
    \/ get_survey_submissions

Spec == Init /\ [][Next]_vars

\* ------------------------------------------ update_rsvp, statement by statement
\* Two processes against one PostgreSQL database at READ COMMITTED: every
\* statement sees what was committed when it started, the session keeps its
\* pending changes until db.commit(), and closing the session rolls back.

\* The request ends: its response is sent and its session closed.
Finish(p, status, err, qids, body) ==
    /\ tx' = [tx EXCEPT ![p] = IdleTx]
    /\ last' = [op |-> "update_rsvp", status |-> status, sid |-> Some(tx[p].sid),
                inv |-> tx[p].inv, tok |-> tx[p].tok, err |-> err, body |-> body,
                data |-> None, qids |-> qids]

\* events.py 400-459: the lookups, the attendee check, the assignments
update_rsvp_load(p) ==
    /\ nops < MaxOps
    /\ tx[p].pc = "idle"
    /\ \E invitation_token \in InvitationTokens, edit_token \in EditTokens :
        LET event == EventByToken(invitation_token)
            matches == IF event = None THEN {}
                       ELSE update_rsvp_matches(subs, event[1].survey_id, edit_token)
        IN IF matches = {}
           THEN Serve("update_rsvp", invitation_token, edit_token, None,
                      Reject(404, None, None))
           ELSE \E sid \in matches, rsvp_data \in RSVPInputs :
                \E survey_responses \in AnswersWith(rsvp_data, AnswerMaps) :
                    IF ~RSVPSchemaValid(rsvp_data)
                    THEN Serve("update_rsvp", invitation_token, edit_token, None,
                               Reject(422, None, None))
                    ELSE IF ~update_rsvp_num_attendees_ok(rsvp_data)
                    THEN Serve("update_rsvp", invitation_token, edit_token, None,
                               Reject(400, None, Some(sid)))
                    ELSE /\ tx' = [tx EXCEPT ![p] =
                                [pc |-> "assigned", inv |-> invitation_token,
                                 tok |-> edit_token, sid |-> sid,
                                 loaded |-> Some(subs[sid]),
                                 assigned |-> Some(update_rsvp_assign(subs[sid], rsvp_data)),
                                 answers |-> survey_responses,
                                 snapshot |-> {}, gone |-> {}]]
                         /\ nops' = nops + 1
                         /\ UNCHANGED <<subs, resps, subSeq, respSeq, draws, owner, call, log, aside, last>>

\* events.py 473-492 once the DELETE of 464-466 has returned
AfterDelete(p, deleted) ==
    LET loop == UpdateRsvpLoop(tx[p].loaded[1].survey_id, tx[p].answers[1], 1, <<>>) IN
    /\ IF loop.ok
       THEN /\ tx' = [tx EXCEPT ![p].pc = "validated", ![p].gone = deleted]
            /\ last' = last
       ELSE Finish(p, 400, loop.err, None, {})
    /\ UNCHANGED <<subs, resps, subSeq, respSeq, draws, nops, owner, call, log, aside>>

\* events.py 462-466: the DELETE takes its snapshot, then locks the rows
update_rsvp_delete(p) ==
    /\ tx[p].pc = "assigned"
    /\ tx[p].answers # None
    /\ LET snapshot == ResponseIds(resps, tx[p].sid) IN
       IF snapshot \cap LockedByOthers(p) # {}
       THEN /\ tx' = [tx EXCEPT ![p].pc = "waiting", ![p].snapshot = snapshot]
            /\ UNCHANGED <<subs, resps, subSeq, respSeq, draws, nops, owner, call, log, aside, last>>
       ELSE AfterDelete(p, snapshot)

\* the lock holder has ended: the rows of the snapshot that still exist are
\* deleted, the rows committed since the snapshot are not seen
update_rsvp_resume(p) ==
    /\ tx[p].pc = "waiting"
    /\ tx[p].snapshot \cap LockedByOthers(p) = {}
    /\ AfterDelete(p, tx[p].snapshot \cap {r.id : r \in resps})

\* events.py 494-507: the flush (UPDATE of the changed columns, INSERTs), the
\* commit and the refresh
update_rsvp_commit(p) ==
    /\ \/ tx[p].pc = "validated"
       \/ tx[p].pc = "assigned" /\ tx[p].answers = None
    /\ LET sid == tx[p].sid
           loop == IF tx[p].answers = None
                   THEN [ok |-> TRUE, err |-> None, added |-> <<>>]
                   ELSE UpdateRsvpLoop(tx[p].loaded[1].survey_id, tx[p].answers[1], 1, <<>>)
       IN IF sid \notin DOMAIN subs
          THEN /\ Finish(p, 500, None, None, {})
               /\ UNCHANGED <<subs, resps, subSeq, respSeq, draws, nops, owner, call, log, aside>>
          ELSE LET row == FlushUpdate(subs[sid], tx[p].loaded[1], tx[p].assigned[1]) IN
               /\ subs' = [subs EXCEPT ![sid] = row]
               /\ resps' = {r \in resps : r.id \notin tx[p].gone}
                               \cup InsertResponses(sid, loop.added, respSeq)
               /\ respSeq' = respSeq + Len(loop.added)
               /\ Finish(p, 200, None, MapKeys(tx[p].answers),
                         {RSVPResponseSchema(sid, row)})
               /\ UNCHANGED <<subSeq, draws, nops, owner, call, log, aside>>

NextConc ==
    \/ submit_rsvp
    \/ delete_rsvp
    \/ \E p \in Procs : update_rsvp_load(p)
    \/ \E p \in Procs : update_rsvp_delete(p)
    \/ \E p \in Procs : update_rsvp_resume(p)
    \/ \E p \in Procs : update_rsvp_commit(p)

SpecConc == Init /\ [][NextConc]_vars

\* -------------------------------------------------- _validate_answer alone
\* The validator called on one answer: the arguments are drawn at the start,
\* the call returns its result.
QuestionTypes ==
    {"text", "multiple_choice", "checkbox", "yes_no", "date_time", "matrix",
     "matrix_single", "rating"}
OptionLists == {None, Some(<<StrA, StrB>>), Some(<<StrA, StrOther>>)}

StrBlank == JStr("   ", 3, TRUE)
StrC == JStr("c", 1, FALSE)
\* a string of n characters x
StrOfLen(n) == JStr("x..", n, FALSE)
\* the decimal numeral of i, a row label
Numeral(i) == JStr(ToString(i), IF i < 10 THEN 1 ELSE IF i < 100 THEN 2 ELSE 3, FALSE)
\* a list of n selections, a mapping of n rows
Selections(n, item) == JList([i \in 1..n |-> item])
Rows(n, value) == JDict([i \in 1..n |-> <<Numeral(i), value>>])

ScalarAnswers ==
    {JNull, StrEmpty, StrBlank, StrA, StrC, StrOther, StrYes, StrNo,
     JBool(TRUE), JBool(FALSE), JInt(0), JInt(1), JInt(2),
     StrOfLen(100), StrOfLen(101), StrOfLen(10000), StrOfLen(10001)}
ChoiceAnswers ==
    {JDict(<< <<StrValue, StrA>> >>),
     JDict(<< <<StrValue, StrOther>> >>),
     JDict(<< <<StrValue, StrOther>>, <<StrOtherText, StrA>> >>),
     JDict(<< <<StrValue, StrOther>>, <<StrOtherText, StrBlank>> >>),
     JDict(<< <<StrValue, StrOther>>, <<StrOtherText, StrOfLen(10001)>> >>),
     JDict(<< <<StrValue, StrOther>>, <<StrOtherText, JInt(1)>> >>)}
CheckboxAnswers ==
    {JList(<<>>), JList(<<StrA>>), JList(<<StrC>>), JList(<<StrOther>>),
     JList(<<StrA, StrOther>>), JList(<<StrA, JInt(1)>>),
     JDict(<< <<StrValues, JList(<<>>)>> >>),
     JDict(<< <<StrValues, StrOther>> >>),
     JDict(<< <<StrValues, JList(<<StrA>>)>> >>),
     JDict(<< <<StrValues, JList(<<StrOther>>)>> >>),
     JDict(<< <<StrValues, JList(<<StrA, StrOther>>)>>, <<StrOtherText, StrA>> >>),
     JDict(<< <<StrValues, JList(<<StrOther>>)>>, <<StrOtherText, StrBlank>> >>),
     JDict(<< <<StrValues, JList(<<StrOther>>)>>, <<StrOtherText, StrOfLen(10000)>> >>),
     JDict(<< <<StrValues, JList(<<StrOther>>)>>, <<StrOtherText, StrOfLen(10001)>> >>),
     JDict(<< <<StrValues, JList(<<StrOther>>)>>, <<StrOtherText, JInt(1)>> >>)}
MatrixAnswers ==
    {Selections(100, StrA), Selections(101, StrA), Selections(2, StrBlank),
     Selections(2, StrOfLen(200)), Selections(2, StrOfLen(201)), JList(<<StrA, JInt(1)>>),
     JDict(<<>>), Rows(1, StrA), Rows(100, StrA), Rows(101, StrA), Rows(2, StrBlank),
     Rows(2, StrOfLen(200)), Rows(2, StrOfLen(201)), Rows(2, JInt(1)),
     JDict(<< <<StrBlank, StrA>> >>), JDict(<< <<StrOfLen(201), StrA>> >>)}
ValidatorAnswers == ScalarAnswers \cup ChoiceAnswers \cup CheckboxAnswers \cup MatrixAnswers

InitValidate ==
    /\ call \in {[pc |-> "called", question_type |-> question_type, answer |-> answer,
                  options |-> options, required |-> required,
                  allow_other |-> allow_other, result |-> FALSE] :
                     question_type \in QuestionTypes, answer \in ValidatorAnswers,
                     options \in OptionLists, required \in BOOLEAN,
                     allow_other \in BOOLEAN}
    /\ subs = << >>
    /\ resps = {}
    /\ subSeq = 0
    /\ respSeq = 0
    /\ draws = 0
    /\ nops = 0
    /\ owner = << >>
    /\ tx = [p \in Procs |-> IdleTx]
    /\ last = NoRequest
    /\ log = {}
    /\ settings = TestingSettings
    /\ stats = NoStats
    /\ catalog = FixedCatalog
    /\ history = NoRequests
    /\ clock = StartOfTime
    /\ limiter = NoRequests
    /\ verify = NoVerify

validate_answer ==
    /\ call.pc = "called"
    /\ call' = [call EXCEPT
                   !.pc = "returned",
                   !.result = _validate_answer(call.question_type, call.answer,
                                               call.options, call.required,
                                               call.allow_other)]
    /\ UNCHANGED <<subs, resps, subSeq, respSeq, draws, nops, owner, tx, last, log, aside>>

SpecValidate == InitValidate /\ [][validate_answer]_vars

\* ------------------------------------------------- answers to TEXT questions
\* The three endpoints that write answers, called with blank, null and
\* ordinary answers to the optional text question 4 of survey 2 and to the
\* required text question 1 of survey 1.
TextAnswerMaps ==
    {<< <<4, StrBlank>> >>,
     << <<4, JNull>> >>,
     << <<4, StrA>> >>,
     << <<1, StrBlank>> >>,
     << <<1, JNull>> >>}

NextText ==
    \/ submit_survey_responses_of(TextAnswerMaps)
    \/ submit_rsvp_of(TextAnswerMaps)
    \/ update_rsvp_of(TextAnswerMaps)

SpecText == Init /\ [][NextText]_vars

\* ------------------------------------------------- get_event_rsvp_stats alone
\* The statistics endpoint over every table of at most MaxRows submissions.
\* The column num_attendees was added to a table that already held RSVPs
\* (migration d2e3f4a5b6c7), so a YES row may have it null; the CHECK
\* constraint of migration 523231addad9 keeps a non-null one at 1 or more.
MaxRows == 3
\* (response, num_attendees) of a row: a count on YES and MAYBE rows only
StatsAnswers ==
    {<<"yes", None>>, <<"yes", Some(2)>>, <<"maybe", None>>, <<"maybe", Some(2)>>,
     <<"no", None>>, <<NULL, None>>}
StatsRows ==
    {[NewSubmission(survey_id, 0) EXCEPT !.identity = "Ann",
                                         !.rsvp_response = a[1],
                                         !.num_attendees = a[2]] :
        survey_id \in {1, 2}, a \in StatsAnswers}
StatsTables == UNION {[1..n -> StatsRows] : n \in 0..MaxRows}

InitStats ==
    /\ call = NoCall
    /\ subs \in StatsTables
    /\ resps = {}
    /\ subSeq = Len(subs)
    /\ respSeq = 0
    /\ draws = 0
    /\ nops = 0
    /\ owner = << >>
    /\ tx = [p \in Procs |-> IdleTx]
    /\ last = NoRequest
    /\ log = {}
    /\ settings = TestingSettings
    /\ stats = NoStats
    /\ catalog = FixedCatalog
    /\ history = NoRequests
    /\ clock = StartOfTime
    /\ limiter = NoRequests
    /\ verify = NoVerify

SpecStats == InitStats /\ [][get_event_rsvp_stats]_vars

\* ------------------------------------------- submit_rsvp under every setting
InitMail ==
    /\ call = NoCall
    /\ subs = << >>
    /\ resps = {}
    /\ subSeq = 0
    /\ respSeq = 0
    /\ draws = 0
    /\ nops = 0
    /\ owner = << >>
    /\ tx = [p \in Procs |-> IdleTx]
    /\ last = NoRequest
    /\ log = {}
    /\ settings \in AllSettings
    /\ stats = NoStats
    /\ catalog = FixedCatalog
    /\ history = NoRequests
    /\ clock = StartOfTime
    /\ limiter = NoRequests
    /\ verify = NoVerify

SpecMail == InitMail /\ [][submit_rsvp]_vars

\* ------------------------------------------------ verify_edit_token alone
\* Every presented token against every stored value: the empty token 0, the
\* tokens 1..MaxTokens that generate_edit_token mints, one it never minted;
\* no hash, the empty string, a malformed string, and the hash of every
\* minted token under every salt.
MaxTokens == 3
MaxSalts == 3
PlainTokens == 0..(MaxTokens + 1)
MintedTokens == {generate_edit_token(d) : d \in 0..(MaxTokens - 1)}
StoredHashes ==
    {None, Some(EmptyHash), Some(MalformedHash)}
        \cup {Some(get_edit_token_hash(t, salt)) : t \in MintedTokens, salt \in 1..MaxSalts}

InitToken ==
    /\ call = NoCall
    /\ subs = << >>
    /\ resps = {}
    /\ subSeq = 0
    /\ respSeq = 0
    /\ draws = 0
    /\ nops = 0
    /\ owner = << >>
    /\ tx = [p \in Procs |-> IdleTx]
    /\ last = NoRequest
    /\ log = {}
    /\ settings = TestingSettings
    /\ stats = NoStats
    /\ catalog = FixedCatalog
    /\ history = NoRequests
    /\ clock = StartOfTime
    /\ limiter = NoRequests
    /\ verify \in {[pc |-> "called", plain_token |-> t, stored_hash |-> h,
                     result |-> FALSE] : t \in PlainTokens, h \in StoredHashes}

verify_token ==
    /\ verify.pc = "called"
    /\ verify' = [verify EXCEPT
                     !.pc = "returned",
                     !.result = verify_edit_token(verify.plain_token, verify.stored_hash)]
    /\ UNCHANGED <<subs, resps, subSeq, respSeq, draws, nops, owner, tx, call, last,
                   log, settings, limiter, clock, history, catalog, stats>>

SpecToken == InitToken /\ [][verify_token]_vars

\* ---- rate limiting (core/security.py, main.py, api/admin.py)
\* is_allowed: drop the timestamps a window old or older; refuse when
\* max_requests are left, else record now.
is_allowed_recording_refusals(client_requests, now, max_requests, window_seconds) ==
    LET kept == SelectSeq(client_requests, LAMBDA req_time : now - req_time < window_seconds)
    IN  [allowed |-> Len(kept) < max_requests, requests |-> Append(kept, now)]

is_allowed(client_requests, now, max_requests, window_seconds) ==
    LET kept == SelectSeq(client_requests, LAMBDA req_time : now - req_time < window_seconds)
    IN  IF Len(kept) >= max_requests
        THEN [allowed |-> FALSE, requests |-> kept]
        ELSE [allowed |-> TRUE, requests |-> Append(kept, now)]

\* one call of a limiter by one client: what the limiter holds for the client
\* afterwards, the calls made so far, and the answer
Call(name, made) ==
    LET one == is_allowed(made.requests, clock.now,
                          Limiters[name].max_requests,
                          Limiters[name].window_seconds)
    IN  [requests |-> one.requests,
         history |-> Append(made.history, [at |-> clock.now, allowed |-> one.allowed]),
         allowed |-> one.allowed]

\* `times` calls in a row while time.time() reads the same: the first half
\* of them, and then, from what they left, the rest
RECURSIVE Calls(_, _, _)
Calls(name, made, times) ==
    IF times = 0
    THEN made
    ELSE IF times = 1
    THEN Call(name, made)
    ELSE CHOOSE done \in {Calls(name, first, times - (times \div 2)) :
                              first \in {Calls(name, made, times \div 2)}} : TRUE

\* the state after `times` requests of handler op by client_ip; status(allowed)
\* is the answer to the last of them
Limited(op, name, client_ip, times, status) ==
    LET done == Calls(name,
                      [requests |-> limiter[name][client_ip],
                       history |-> history[name][client_ip],
                       allowed |-> TRUE],
                      times)
    IN  /\ nops' = nops + 1
        /\ limiter' = [limiter EXCEPT ![name][client_ip] = done.requests]
        /\ history' = [history EXCEPT ![name][client_ip] = done.history]
        /\ last' = [NoRequest EXCEPT !.op = op, !.inv = client_ip,
                                     !.status = IF done.allowed THEN status ELSE 429]
        /\ UNCHANGED <<subs, resps, subSeq, respSeq, draws, owner, tx, call, log,
                       settings, verify, clock, catalog, stats>>

StartsWith(path, prefix) ==
    /\ Len(path) >= Len(prefix)
    /\ SubSeq(path, 1, Len(prefix)) = prefix

Paths == {<<"api", "events">>, <<"api", "admin", "events">>}

\* RateLimitMiddleware.dispatch: admin and health paths pass unlimited
dispatch ==
    \E client_ip \in ClientIPs : \E path \in Paths :
        /\ nops < MaxOps
        /\ IF StartsWith(path, <<"api", "admin">>) \/ path = <<"health">>
           THEN Limited("dispatch", "rate_limiter", client_ip, 0, 200)
           ELSE Limited("dispatch", "rate_limiter", client_ip, 1, 200)

\* one client sending as many requests as a window allows at once
dispatch_burst ==
    \E client_ip \in ClientIPs :
        /\ nops < MaxOps
        /\ Limited("dispatch", "rate_limiter", client_ip, RATE_LIMIT_MAX_REQUESTS, 200)

\* login: the limiter is asked before the credentials are looked at
login ==
    \E client_ip \in ClientIPs : \E status \in {200, 401} :
        /\ nops < MaxOps
        /\ Limited("login", "login_rate_limiter", client_ip, 1, status)

\* one client guessing as many passwords as a window allows at once
login_burst ==
    \E client_ip \in ClientIPs :
        /\ nops < MaxOps
        /\ Limited("login", "login_rate_limiter", client_ip,
                   LOGIN_RATE_LIMIT_MAX_ATTEMPTS, 401)

\* time.time() is read later: a second later, or a second less than a window
MaxTicks == 2
Seconds == {1, RATE_LIMIT_WINDOW_SECONDS - 1}
tick ==
    \E seconds \in Seconds :
        /\ clock.ticks < MaxTicks
        /\ clock' = [now |-> clock.now + seconds, ticks |-> clock.ticks + 1]
        /\ UNCHANGED <<subs, resps, subSeq, respSeq, draws, nops, owner, tx, call, last,
                       log, settings, verify, limiter, history, catalog, stats>>

NextLimit == dispatch \/ dispatch_burst \/ login \/ login_burst \/ tick
SpecLimit == Init /\ [][NextLimit]_vars

\* ---- create_event (api/admin_events.py, services/event_service.py)
Truthy(text) == text # None /\ text[1] # ""

QuestionCreate(order) == [question_type |-> "text", order |-> order]
EventCreate(survey_id, survey_description, survey_questions, access_code) ==
    [survey_id |-> survey_id, survey_description |-> survey_description,
     survey_questions |-> survey_questions, access_code |-> access_code]
EventCreates ==
    {EventCreate(survey_id, survey_description, survey_questions, access_code) :
        survey_id \in {None, Some(0), Some(1), Some(99999)},
        survey_description \in {None, Some(""), Some("for the guests")},
        survey_questions \in {<< >>, <<QuestionCreate(0)>>,
                              <<QuestionCreate(7), QuestionCreate(0)>>},
        access_code \in {None, Some(Code("", 0)), Some(Code("letmein", 7))}}

\* Survey(event_id=None, ...); db.add(survey); db.flush()
NewSurvey(cat, description) ==
    [cat EXCEPT !.surveySeq = @ + 1,
                !.surveys = @ \cup {[id |-> cat.surveySeq + 1,
                                     survey_token |-> "s" \o ToString(cat.surveySeq + 1),
                                     event_id |-> None, description |-> description]}]

\* the loop over enumerate(event_data.survey_questions); the rows get their
\* ids when the session is flushed
NewQuestions(cat, survey_id, survey_questions) ==
    [cat EXCEPT !.questionSeq = @ + Len(survey_questions),
                !.questions = @ \cup
                    {[id |-> cat.questionSeq + idx + 1, survey_id |-> survey_id,
                      order |-> IF survey_questions[idx + 1].order # 0
                                   /\ survey_questions[idx + 1].order > 0
                                THEN survey_questions[idx + 1].order
                                ELSE idx + 1] :
                        idx \in 0..(Len(survey_questions) - 1)}]

\* _create_or_link_survey: a survey_id of 0 is not a survey_id to link
create_or_link_survey(cat, event_data) ==
    IF event_data.survey_id # None /\ event_data.survey_id[1] # 0
    THEN IF \E sv \in cat.surveys : sv.id = event_data.survey_id[1]
         THEN [status |-> 200, survey_id |-> event_data.survey_id[1], work |-> cat]
         ELSE [status |-> 404, survey_id |-> 0, work |-> cat]
    ELSE IF Len(event_data.survey_questions) > 0
    THEN [status |-> 200, survey_id |-> cat.surveySeq + 1,
          work |-> NewQuestions(NewSurvey(cat, event_data.survey_description),
                                cat.surveySeq + 1, event_data.survey_questions)]
    ELSE [status |-> 200, survey_id |-> cat.surveySeq + 1, work |-> NewSurvey(cat, None)]

\* Event(...); db.add(event); db.flush(); survey.event_id = event.id
NewEvent(cat, survey_id, access_code) ==
    [cat EXCEPT !.eventSeq = @ + 1,
                !.events = @ \cup {[id |-> cat.eventSeq + 1,
                                    invitation_token |-> "e" \o ToString(cat.eventSeq + 1),
                                    survey_id |-> survey_id,
                                    show_rsvp_list |-> FALSE,
                                    access_code |-> access_code]},
                !.surveys = {IF sv.id = survey_id /\ sv.event_id = None
                             THEN [sv EXCEPT !.event_id = Some(cat.eventSeq + 1)]
                             ELSE sv : sv \in @}]

\* what rolling back leaves: the rows as they were, the sequences advanced
RolledBack(cat, work) ==
    [cat EXCEPT !.eventSeq = work.eventSeq, !.surveySeq = work.surveySeq,
                !.questionSeq = work.questionSeq]

\* create_event_with_survey; commits tells whether db.commit() succeeds
create_event_with_survey(cat, event_data, salt, commits) ==
    IF event_data.survey_id # None
       /\ (Truthy(event_data.survey_description) \/ Len(event_data.survey_questions) > 0)
    THEN [status |-> 400, catalog |-> cat]
    ELSE LET linked == create_or_link_survey(cat, event_data)
             hashed_access_code ==
                 IF event_data.access_code # None /\ event_data.access_code[1].n > 0
                 THEN Some(get_access_code_hash(event_data.access_code[1], salt))
                 ELSE None
             work == NewEvent(linked.work, linked.survey_id, hashed_access_code)
         IN  IF linked.status # 200 THEN [status |-> linked.status, catalog |-> cat]
             ELSE IF commits THEN [status |-> 201, catalog |-> work]
             ELSE [status |-> 500, catalog |-> RolledBack(cat, work)]

create_event ==
    /\ nops < MaxOps
    /\ \E event_data \in EventCreates : \E commits \in BOOLEAN :
        LET done == create_event_with_survey(catalog, event_data, draws, commits)
        IN  /\ catalog' = done.catalog
            /\ draws' = draws + 1
            /\ nops' = nops + 1
            /\ last' = [NoRequest EXCEPT !.op = "create_event", !.status = done.status,
                                         !.data = Some(event_data)]
            /\ UNCHANGED <<subs, resps, subSeq, respSeq, owner, tx, call, log,
                           settings, verify, limiter, clock, history, stats>>

SpecEvent == Init /\ [][create_event]_vars

\* ---- deleting questions, surveys and events (admin_surveys.py, admin_events.py)
\* The foreign keys of the schema, none of them ON DELETE CASCADE: a
\* transaction that would break one fails with an IntegrityError.
ForeignKeysHold(tsubs, tresps, cat) ==
    /\ \A r \in tresps : /\ r.submission_id \in DOMAIN tsubs
                         /\ \E q \in cat.questions : q.id = r.question_id
    /\ \A sid \in DOMAIN tsubs : \E sv \in cat.surveys : sv.id = tsubs[sid].survey_id
    /\ \A q \in cat.questions : \E sv \in cat.surveys : sv.id = q.survey_id
    /\ \A e \in cat.events : \E sv \in cat.surveys : sv.id = e.survey_id
    /\ \A sv \in cat.surveys :
           sv.event_id # None => \E e \in cat.events : e.id = sv.event_id[1]

\* db.delete(question): Question.responses is cascade="all, delete-orphan",
\* so the session deletes the answers to the question before the question
DeleteQuestion(tresps, cat, question_id) ==
    [resps |-> {r \in tresps : r.question_id # question_id},
     catalog |-> [cat EXCEPT !.questions = {q \in @ : q.id # question_id}]]

\* db.delete(survey): Survey.questions and Survey.submissions cascade, and
\* SurveySubmission.question_responses cascades from each submission
DeleteSurvey(tsubs, tresps, cat, survey_id) ==
    LET questions == {q.id : q \in {x \in cat.questions : x.survey_id = survey_id}}
        submissions == {sid \in DOMAIN tsubs : tsubs[sid].survey_id = survey_id}
    IN  [subs |-> [sid \in DOMAIN tsubs \ submissions |-> tsubs[sid]],
         resps |-> {r \in tresps : /\ r.question_id \notin questions
                                   /\ r.submission_id \notin submissions},
         catalog |-> [cat EXCEPT !.questions = {q \in @ : q.survey_id # survey_id},
                                 !.surveys = {sv \in @ : sv.id # survey_id}]]

\* delete_event: survey.event_id = None; db.delete(event)
DeleteEvent(cat, event) ==
    [cat EXCEPT !.surveys = {IF sv.id = event.survey_id
                             THEN [sv EXCEPT !.event_id = None] ELSE sv : sv \in @},
                !.events = @ \ {event}]

\* the session of an admin request ends: committed when the foreign keys
\* hold, else answered 500 and rolled back
Deleted(op, inv, tsubs, tresps, cat) ==
    LET kept == ForeignKeysHold(tsubs, tresps, cat)
    IN  /\ subs' = IF kept THEN tsubs ELSE subs
        /\ resps' = IF kept THEN tresps ELSE resps
        /\ catalog' = IF kept THEN cat ELSE catalog
        /\ nops' = nops + 1
        /\ last' = [NoRequest EXCEPT !.op = op, !.inv = inv,
                                     !.status = IF kept THEN 204 ELSE 500]
        /\ UNCHANGED <<subSeq, respSeq, draws, owner, tx, call, log,
                       settings, verify, limiter, clock, history, stats>>

NotFound(op) ==
    /\ nops' = nops + 1
    /\ last' = [NoRequest EXCEPT !.op = op, !.status = 404]
    /\ UNCHANGED <<subs, resps, subSeq, respSeq, draws, owner, tx, call, log, aside>>

delete_survey_question ==
    /\ nops < MaxOps
    /\ \E survey_id \in {1, 2}, question_id \in QIds :
        IF \E q \in catalog.questions : q.id = question_id /\ q.survey_id = survey_id
        THEN LET work == DeleteQuestion(resps, catalog, question_id)
             IN  Deleted("delete_survey_question", SurveyById(survey_id)[1].survey_token,
                         subs, work.resps, work.catalog)
        ELSE NotFound("delete_survey_question")

delete_survey ==
    /\ nops < MaxOps
    /\ \E survey_id \in {1, 2, 3} :
        IF SurveyById(survey_id) # None
        THEN LET work == DeleteSurvey(subs, resps, catalog, survey_id)
             IN  Deleted("delete_survey", SurveyById(survey_id)[1].survey_token,
                         work.subs, work.resps, work.catalog)
        ELSE NotFound("delete_survey")

delete_event ==
    /\ nops < MaxOps
    /\ \E event_id \in {1, 2, 3} :
        IF EventById(event_id) # None
        THEN Deleted("delete_event", EventById(event_id)[1].invitation_token,
                     subs, resps, DeleteEvent(catalog, EventById(event_id)[1]))
        ELSE NotFound("delete_event")

\* the requests that write: answers sent for a question of the survey, and
\* for questions of both surveys at once
RefAnswerMaps == {<< <<1, StrA>> >>, << <<1, StrA>>, <<3, StrA>> >>}

NextRef ==
    \/ submit_survey_responses_of(RefAnswerMaps)
    \/ submit_rsvp_of(RefAnswerMaps)
    \/ update_rsvp_of(RefAnswerMaps)
    \/ delete_rsvp
    \/ delete_survey_question
    \/ delete_survey
    \/ delete_event
SpecRef == Init /\ [][NextRef]_vars

\* ---- get_event_rsvp_stats, query by query (events.py 119-210)
\* The handler sends three SELECTs on one session.  Under READ COMMITTED each
\* statement reads what is committed when it starts, so requests served by
\* another process may commit between two of them.
RsvpSubmissions(tsubs, survey_id) ==
    {s \in DOMAIN tsubs : tsubs[s].survey_id = survey_id /\ tsubs[s].rsvp_response # NULL}

StatsStep(next_stats, next_last) ==
    /\ stats' = next_stats
    /\ last' = next_last
    /\ UNCHANGED <<subs, resps, subSeq, respSeq, draws, owner, tx, call, log,
                   settings, verify, limiter, clock, history, catalog>>

\* events.py 126-150: the event, then the YES rows with .all()
stats_yes ==
    /\ nops < MaxOps
    /\ stats.pc = "idle"
    /\ nops' = nops + 1
    /\ \E invitation_token \in InvitationTokens :
        LET event == EventByToken(invitation_token) IN
        IF event = None
        THEN StatsStep(NoStats,
                       [NoRequest EXCEPT !.op = "get_event_rsvp_stats", !.status = 404,
                                         !.inv = invitation_token])
        ELSE StatsStep([pc |-> "yes", inv |-> invitation_token, event |-> event,
                        yes |-> [s \in WithResponse(subs, event[1].survey_id, "yes") |->
                                     subs[s]],
                        no_count |-> 0,
                        first |-> Cardinality(RsvpSubmissions(subs, event[1].survey_id))],
                       last)

\* events.py 153-162: the NO rows are counted in the database
stats_no ==
    /\ stats.pc = "yes"
    /\ nops' = nops
    /\ StatsStep([stats EXCEPT !.pc = "no",
                     !.no_count = Cardinality(WithResponse(subs, stats.event[1].survey_id,
                                                           "no"))],
                 last)

\* events.py 165-210: the MAYBE rows with .all(), then the response.  A row
\* the session already holds keeps the attributes it was loaded with.
RSVPStatsResponse(st, tsubs) ==
    LET event == st.event[1]
        yes_submissions == DOMAIN st.yes
        maybe_submissions == WithResponse(tsubs, event.survey_id, "maybe")
        seen == [s \in yes_submissions \cup maybe_submissions |->
                    IF s \in yes_submissions THEN st.yes[s] ELSE tsubs[s]]
        counts == [total_rsvps |-> Cardinality(yes_submissions) + st.no_count
                                   + Cardinality(maybe_submissions),
                   yes_count |-> Cardinality(yes_submissions),
                   yes_attendees |-> SumAttendees(seen, yes_submissions),
                   no_count |-> st.no_count,
                   maybe_count |-> Cardinality(maybe_submissions),
                   maybe_attendees |-> SumAttendees(seen, maybe_submissions),
                   show_rsvp_list |-> event.show_rsvp_list]
        attendees == [yes |-> AttendeeEntries(seen, yes_submissions),
                      maybe |-> AttendeeEntries(seen, maybe_submissions)]
    IN  IF attendees_shown(event)
        THEN [k \in DOMAIN counts \cup {"attendees"} |->
                 IF k = "attendees" THEN attendees ELSE counts[k]]
        ELSE counts

stats_maybe ==
    /\ stats.pc = "no"
    /\ nops' = nops
    /\ StatsStep(NoStats,
                 [NoRequest EXCEPT !.op = "get_event_rsvp_stats", !.status = 200,
                                   !.inv = stats.inv, !.body = {RSVPStatsResponse(stats, subs)}])

\* the writers send no answers, or an empty map
NoAnswerMaps == {<< >>}

NextSnapshot ==
    \/ submit_rsvp_of(NoAnswerMaps)
    \/ update_rsvp_of(NoAnswerMaps)
    \/ stats_yes
    \/ stats_no
    \/ stats_maybe
SpecSnapshot == Init /\ [][NextSnapshot]_vars

\* ---- access codes (core/security.py 74-94, events.py, admin_events.py)
\* the length of a code as the client sends it: a bcrypt hash is 60 bytes,
\* its base64 is 80 characters
Bytes(code) == IF code.b64 THEN 80 ELSE code.n

\* bcrypt.checkpw(password, hashed_password), after base64.b64decode of the
\* stored string: what it can do.  A stored string that is no hash makes
\* b64decode or checkpw raise.  A password of more than 72 bytes is cut to
\* 72 by a bcrypt that truncates and refused by one that does not.
checkpw(password, hashed_password) ==
    LET same == /\ ~password.b64
                /\ Truncated(password).text = hashed_password.text
                /\ Truncated(password).n = hashed_password.n
    IN  IF ~hashed_password.b64 THEN {"raise"}
        ELSE IF Bytes(password) > BCRYPT_MAX_PASSWORD_BYTES
             THEN {IF same THEN "match" ELSE "differ", "raise"}
             ELSE {IF same THEN "match" ELSE "differ"}

\* security.py 74-94: the results it can return.  When checkpw does not
\* match, secrets.compare_digest(plain_access_code, stored_hash) decides
\* (the codes here are ASCII).
verify_access_code(plain_access_code, stored_hash) ==
    IF Bytes(plain_access_code) = 0 \/ Bytes(stored_hash) = 0
    THEN {FALSE}
    ELSE {outcome = "match" \/ plain_access_code = stored_hash :
             outcome \in checkpw(plain_access_code, stored_hash)}

\* events.py 80-84, 132-136, 237-245: whether the handler raises the 403
access_code_refused(event, access_code) ==
    IF event.access_code = None \/ Bytes(event.access_code[1]) = 0
    THEN {FALSE}
    ELSE IF access_code = None \/ Bytes(access_code[1]) = 0
    THEN {TRUE}
    ELSE {~verified : verified \in verify_access_code(access_code[1], event.access_code[1])}

\* the codes an admin sets: none sent, the empty one, two codes
AdminCodes == {None, Some(Code("", 0)), Some(Code("letmein", 7)), Some(Code("sesame", 6))}

\* the codes a client sends: none, the empty one, the two codes, one no admin
\* set, and the strings stored in the events' access_code column
ClientCodes ==
    AdminCodes \cup {Some(Code("guess", 5))}
        \cup {e.access_code : e \in {x \in catalog.events : x.access_code # None}}

\* admin_events.py 60-96, for a body that has at most an access_code
update_event ==
    /\ nops < MaxOps
    /\ \E event_id \in {1, 2, 3}, access_code \in AdminCodes :
        LET event == EventById(event_id)
            hashes == access_code # None /\ access_code[1].n > 0
            stored == IF access_code = None THEN event[1].access_code
                      ELSE IF hashes THEN Some(get_access_code_hash(access_code[1], draws))
                      ELSE None
        IN  /\ catalog' = IF event = None THEN catalog
                           ELSE [catalog EXCEPT !.events =
                                    {IF e.id = event_id
                                     THEN [e EXCEPT !.access_code = stored]
                                     ELSE e : e \in @}]
            /\ draws' = IF event # None /\ hashes THEN draws + 1 ELSE draws
            /\ last' = [NoRequest EXCEPT !.op = "update_event",
                                         !.status = IF event = None THEN 404 ELSE 200,
                                         !.inv = IF event = None THEN "none"
                                                 ELSE event[1].invitation_token,
                                         !.data = Some([access_code |-> access_code])]
    /\ nops' = nops + 1
    /\ UNCHANGED <<subs, resps, subSeq, respSeq, owner, tx, call, log,
                   settings, verify, limiter, clock, history, stats>>

\* RSVPCreate: the RSVP body with its access_code field
RSVPCreate(rsvp_data, access_code) ==
    [k \in DOMAIN rsvp_data \cup {"access_code"} |->
        IF k = "access_code" THEN access_code ELSE rsvp_data[k]]

\* events.py 31-116; of the body, the event's id and has_access_code
GetEventOutcome(invitation_token) ==
    LET event == EventByToken(invitation_token) IN
    IF event = None THEN Reject(404, None, None)
    ELSE Outcome(200, None, None, FALSE, subs, resps, 0, 0, 0,
                 {[id |-> event[1].id, has_access_code |-> event[1].access_code # None]})

\* a public handler with its access code check, which comes right after the
\* event was found
Checked(op, invitation_token, access_code, data, out) ==
    LET event == EventByToken(invitation_token) IN
    \E refused \in IF event = None \/ out.status = 422 THEN {FALSE}
                    ELSE access_code_refused(event[1], access_code) :
        ServeRsvp(op, invitation_token, 0, None, Some(data),
                  IF refused THEN Reject(403, None, None) ELSE out)

get_event_by_token ==
    /\ nops < MaxOps
    /\ \E invitation_token \in InvitationTokens, access_code \in ClientCodes :
        Checked("get_event_by_token", invitation_token, access_code,
                [access_code |-> access_code], GetEventOutcome(invitation_token))

get_event_rsvp_stats_with_code ==
    /\ nops < MaxOps
    /\ \E invitation_token \in InvitationTokens, access_code \in ClientCodes :
        Checked("get_event_rsvp_stats", invitation_token, access_code,
                [access_code |-> access_code], GetStatsOutcome(invitation_token))

submit_rsvp_with_code ==
    /\ nops < MaxOps
    /\ \E invitation_token \in InvitationTokens, access_code \in ClientCodes,
           rsvp_data \in RSVPInputs :
        Checked("submit_rsvp", invitation_token, access_code,
                RSVPCreate(rsvp_data, access_code),
                SubmitRsvpOutcome(invitation_token, rsvp_data, None))

NextAccess ==
    \/ update_event
    \/ get_event_by_token
    \/ get_event_rsvp_stats_with_code
    \/ submit_rsvp_with_code
SpecAccess == Init /\ [][NextAccess]_vars

\* ------------------------------------------------------------------ claims
Creates == {"submit_survey_responses", "submit_rsvp"}
SuppliedKeys(request) == IF request.qids = None THEN {} ELSE request.qids[1]

\* C1: a create request with an answer that fails validation is answered 400
\* and leaves no submission row and no answer row behind, although the
\* submission was flushed and earlier answers were added; a create request
\* that succeeds stored, for every supplied answer to a question of the
\* survey, one row whose answer passes _validate_answer.
C1_CreateRollsBack ==
    last.op \in Creates =>
        IF last.status = 201
        THEN /\ last.sid[1] \in DOMAIN subs
             /\ \A q \in SuppliedKeys(last) \cap QuestionsOf(subs[last.sid[1]].survey_id) :
                    \E r \in ResponsesOf(resps, last.sid[1]) : r.question_id = q
             /\ \A r \in ResponsesOf(resps, last.sid[1]) :
                    _validate_answer(Questions[r.question_id].question_type, r.answer,
                                     Questions[r.question_id].options,
                                     Questions[r.question_id].required,
                                     Questions[r.question_id].allow_other)
        ELSE /\ last.status \in {400, 404, 422}
             /\ last.err # None => last.status = 400
             /\ last.sid # None =>
                    /\ last.sid[1] \notin DOMAIN subs
                    /\ ResponsesOf(resps, last.sid[1]) = {}

\* a create was rejected for its second answer after the flush of the
\* submission and the add of the first answer
C1_Witness ==
    /\ last.op = "submit_rsvp"
    /\ last.status = 400
    /\ last.sid = Some(subSeq)
    /\ last.err = Some(1)

\* C2: a rejected update_rsvp commits nothing: every submission and every
\* answer row is as it was before the request.
C2_RejectedUpdateChangesNothing ==
    [][(last'.op = "update_rsvp" /\ last'.status # 200) =>
           (subs' = subs /\ resps' = resps)]_vars

\* an update was rejected for an invalid replacement answer while the
\* submission had answer rows (which the request had deleted)
C2_Witness ==
    /\ last.op = "update_rsvp"
    /\ last.status = 400
    /\ last.err # None
    /\ ResponsesOf(resps, last.sid[1]) # {}

\* C3: after a successful update_rsvp with a replacement map the answer
\* rows of the submission are exactly one row per question id of the map,
\* none of them a row from before the update.
C3_UpdateReplacesAnswers ==
    [][(last'.op = "update_rsvp" /\ last'.status = 200 /\ last'.qids # None) =>
           LET rows == ResponsesOf(resps', last'.sid[1]) IN
           /\ {r.question_id : r \in rows} = last'.qids[1]
           /\ Cardinality(rows) = Cardinality(last'.qids[1])
           /\ rows \cap resps = {}]_vars

\* C4: get_my_rsvp and update_rsvp succeed only on a submission of the
\* event's survey whose stored hash verifies the presented token, and that
\* submission is the one the token was minted for; they leave every other
\* submission and its answers alone; when no submission qualifies they are
\* refused (404, or 422 for a body the schema rejects) and change nothing.
Qualifies(s, inv, tok) ==
    /\ EventByToken(inv) # None
    /\ subs[s].survey_id = EventByToken(inv)[1].survey_id
    /\ subs[s].edit_token_hash # None
    /\ verify_edit_token(tok, subs[s].edit_token_hash)

C4_TokenScopesAccess ==
    [][last'.op \in {"get_my_rsvp", "update_rsvp"} =>
           /\ last'.status = 200 =>
                  /\ last'.sid[1] \in DOMAIN subs
                  /\ Qualifies(last'.sid[1], last'.inv, last'.tok)
                  /\ last'.tok \in DOMAIN owner
                  /\ owner[last'.tok] = last'.sid[1]
                  /\ \A b \in last'.body : b.id = last'.sid[1]
           /\ \A s \in DOMAIN subs :
                  (last'.status # 200 \/ s # last'.sid[1] \/ last'.op = "get_my_rsvp") =>
                      /\ s \in DOMAIN subs'
                      /\ subs'[s] = subs[s]
                      /\ ResponsesOf(resps', s) = ResponsesOf(resps, s)
           /\ DOMAIN subs' = DOMAIN subs
           /\ (~\E s \in DOMAIN subs : Qualifies(s, last'.inv, last'.tok)) =>
                  /\ last'.status \in {404, 422}
                  /\ last'.op = "get_my_rsvp" => last'.status = 404]_vars

\* a token was accepted while another respondent's submission with its own
\* token existed
C4_Witness ==
    /\ last.op = "update_rsvp"
    /\ last.status = 200
    /\ \E s \in DOMAIN subs : s # last.sid[1] /\ subs[s].edit_token_hash # None

\* C5: only the response of the submit_rsvp that created a submission
\* carries an edit token, and it is the token minted for that submission; no
\* response carries a stored hash; no request replaces the hash of an
\* existing submission, and only submit_rsvp draws a token.
C5_TokenReturnedOnce ==
    [][/\ \A b \in last'.body :
              /\ "edit_token_hash" \notin DOMAIN b
              /\ "edit_token" \in DOMAIN b =>
                     /\ last'.op = "submit_rsvp"
                     /\ last'.status = 201
                     /\ b.edit_token = draws'
                     /\ draws' = draws + 1
                     /\ owner'[b.edit_token] = b.id
       /\ \A s \in DOMAIN subs \cap DOMAIN subs' :
              subs'[s].edit_token_hash = subs[s].edit_token_hash
       /\ draws' # draws => last'.op = "submit_rsvp"]_vars

\* an RSVP was read back through its edit token
C5_Witness ==
    /\ last.op = "get_my_rsvp"
    /\ last.status = 200
    /\ last.body # {}

\* C6: a create request succeeds only if every required question of the
\* survey has a key in the submitted answer map.
C6_RequiredAnswered ==
    (last.op \in Creates /\ last.status = 201) =>
        \A q \in QuestionsOf(subs[last.sid[1]].survey_id) :
            Questions[q].required => q \in SuppliedKeys(last)

\* C7: a request that writes answers succeeds only if every question id of
\* its answer map belongs to the target survey.
C7_ForeignQuestionRejected ==
    (/\ last.op \in Creates \cup {"update_rsvp"}
     /\ last.status \in {200, 201}
     /\ last.qids # None) =>
        last.qids[1] \subseteq QuestionsOf(subs[last.sid[1]].survey_id)

\* C8: every committed submission has at most one answer row for any question.
C8_OneAnswerPerQuestion ==
    \A s \in DOMAIN subs : \A q \in QIds :
        Cardinality({r \in ResponsesOf(resps, s) : r.question_id = q}) <= 1

RsvpFields(row) ==
    <<row.identity, row.rsvp_response, row.num_attendees, row.email, row.phone, row.comment>>
BodyFields(b) ==
    <<b.identity, b.response, b.num_attendees, b.email, b.phone, b.comment>>
Commits(p) ==
    /\ tx[p].pc \in {"assigned", "validated"}
    /\ tx'[p].pc = "idle"
    /\ last'.status = 200

\* C9: when an update_rsvp commits right after another committed update of
\* the same submission, the RSVP fields are those of one of the two
\* requests, and, if it carried an answer map, the answer rows are one row
\* per question of one of the two maps: never a mixture of fields, never a
\* union of the two answer sets.
C9_LastWriteWins ==
    [][\A p \in Procs :
          (/\ Commits(p)
           /\ last.op = "update_rsvp" /\ last.status = 200
           /\ last.sid = Some(tx[p].sid)) =>
              LET sid == tx[p].sid
                  rows == ResponsesOf(resps', sid)
                  asked == QuestionsOf(subs[sid].survey_id)
              IN /\ RsvpFields(subs'[sid]) \in
                        {RsvpFields(tx[p].assigned[1])} \cup {BodyFields(b) : b \in last.body}
                 /\ tx[p].answers # None =>
                        /\ Cardinality(rows) = Cardinality({r.question_id : r \in rows})
                        /\ {r.question_id : r \in rows} \in
                               {Keys(tx[p].answers[1]) \cap asked}
                               \cup (IF last.qids = None THEN {}
                                     ELSE {SuppliedKeys(last) \cap asked})]_vars

\* C10: a committed submission has num_attendees null unless its
\* rsvp_response is yes or maybe.
C10_AttendeesOnlyForYesMaybe ==
    \A s \in DOMAIN subs :
        subs[s].rsvp_response \notin {"yes", "maybe"} => subs[s].num_attendees = None

\* C11: submit_rsvp and update_rsvp refuse (400, or 422 from the schema) a
\* body with response yes and num_attendees absent or below 1, and a body
\* with response maybe and a supplied num_attendees below 1, and then change
\* nothing; a 400 that names no question comes from this rule only; on
\* success the stored num_attendees of a yes or maybe is the supplied value.
BadAttendees(d) ==
    \/ d.response = "yes" /\ (d.num_attendees = None \/ d.num_attendees[1] < 1)
    \/ d.response = "maybe" /\ d.num_attendees # None /\ d.num_attendees[1] < 1

EmptyAnswer(a) ==
    \/ a.t = "null"
    \/ (a.t = "str" /\ (a.n = 0 \/ a.ws))
    \/ (a.t \in {"list", "dict"} /\ Len(a.items) = 0)

C12_EmptyValidIffOptional ==
    (call.pc = "returned" /\ EmptyAnswer(call.answer)) =>
        (call.result <=> ~call.required)

\* a blank string was accepted for an optional question of an unknown type
C12_Witness ==
    /\ call.pc = "returned"
    /\ call.question_type = "rating"
    /\ call.answer = StrBlank
    /\ ~call.required
    /\ call.result

\* C13: for checkbox and multiple_choice questions with allow_other false,
\* an answer that selects the literal "other" (as a bare string, as the
\* "value" of a record, as an item of a bare list, as an item of the
\* "values" of a record) is invalid, whatever the options.
SelectsOther(a) ==
    \/ a = StrOther
    \/ (a.t = "list" /\ \E i \in 1..Len(a.items) : a.items[i] = StrOther)
    \/ (a.t = "dict" /\ \E i \in 1..Len(a.items) :
            \/ (a.items[i][1] = StrValue /\ a.items[i][2] = StrOther)
            \/ (/\ a.items[i][1] = StrValues
                /\ a.items[i][2].t = "list"
                /\ \E j \in 1..Len(a.items[i][2].items) :
                       a.items[i][2].items[j] = StrOther))

C13_OtherNeedsAllowOther ==
    (/\ call.pc = "returned"
     /\ call.question_type \in {"checkbox", "multiple_choice"}
     /\ ~call.allow_other
     /\ SelectsOther(call.answer)) => ~call.result

\* a bare list with "other" was refused although the options list "other"
C13_Witness ==
    /\ call.pc = "returned"
    /\ call.question_type = "checkbox"
    /\ call.answer = JList(<<StrA, StrOther>>)
    /\ call.options = Some(<<StrA, StrOther>>)
    /\ ~call.allow_other
    /\ ~call.result

\* C14: a checkbox answer whose selected values contain "other", in the bare
\* list form or in the {values, other_text} form, is valid only if it
\* carries an other_text that is a string, non-blank and of at most 10,000
\* characters.
SelectedValues(a) ==
    IF a.t = "list" THEN a.items
    ELSE IF a.t = "dict" /\ HasKey(a, StrValues) /\ DictGet(a, StrValues, JNull).t = "list"
    THEN DictGet(a, StrValues, JNull).items
    ELSE <<>>
HasGoodOtherText(a) ==
    /\ a.t = "dict"
    /\ HasKey(a, StrOtherText)
    /\ LET other_text == DictGet(a, StrOtherText, JNull) IN
       /\ other_text.t = "str"
       /\ ~other_text.ws /\ other_text.n > 0
       /\ other_text.n <= 10000

C14_OtherTextRequired ==
    (/\ call.pc = "returned"
     /\ call.question_type = "checkbox"
     /\ \E i \in 1..Len(SelectedValues(call.answer)) :
            SelectedValues(call.answer)[i] = StrOther
     /\ call.result) => HasGoodOtherText(call.answer)

\* C15: a non-empty answer to a yes_no question is valid iff it is a boolean
\* or one of the strings "yes" and "no".
C15_YesNoValues ==
    (/\ call.pc = "returned"
     /\ call.question_type = "yes_no"
     /\ ~EmptyAnswer(call.answer)) =>
        (call.result <=> (call.answer.t = "bool" \/ call.answer \in {StrYes, StrNo}))

WellFormedItem(x) == x.t = "str" /\ ~x.ws /\ x.n > 0 /\ x.n <= 200
WellFormedRows(a) ==
    /\ a.t = "dict"
    /\ \A i \in 1..Len(a.items) : WellFormedItem(a.items[i][1]) /\ WellFormedItem(a.items[i][2])
WellFormedSelections(a) ==
    /\ a.t = "list"
    /\ \A i \in 1..Len(a.items) : WellFormedItem(a.items[i])

\* C16 as stated: a matrix_single mapping of non-blank strings of at most 200
\* characters is valid iff it has at most 100 keys, and a matrix list of
\* such strings is valid iff it has at most 100 items.
C16_MatrixLimitsAsStated ==
    call.pc = "returned" =>
        /\ (call.question_type = "matrix_single" /\ WellFormedRows(call.answer)) =>
               (call.result <=> Len(call.answer.items) <= 100)
        /\ (call.question_type = "matrix" /\ WellFormedSelections(call.answer)) =>
               (call.result <=> Len(call.answer.items) <= 100)

\* C16 amended: the same for a non-empty mapping and a non-empty list; the
\* empty mapping and the empty list are valid iff the question is optional.
C16_MatrixLimits ==
    call.pc = "returned" =>
        /\ (call.question_type = "matrix_single" /\ WellFormedRows(call.answer)) =>
               IF Len(call.answer.items) = 0 THEN call.result <=> ~call.required
               ELSE call.result <=> Len(call.answer.items) <= 100
        /\ (call.question_type = "matrix" /\ WellFormedSelections(call.answer)) =>
               IF Len(call.answer.items) = 0 THEN call.result <=> ~call.required
               ELSE call.result <=> Len(call.answer.items) <= 100

\* a mapping of 101 well-formed rows was refused
C16_Witness ==
    /\ call.pc = "returned"
    /\ call.question_type = "matrix_single"
    /\ WellFormedRows(call.answer)
    /\ Len(call.answer.items) = 101
    /\ ~call.result

\* C17: on every path that writes answers (submit_survey_responses, submit_rsvp,
\* update_rsvp) the answer stored for a TEXT question is never null, and the
\* answer stored for an optional TEXT question is never a whitespace-only
\* string: both are persisted as the empty string.
C17_BlankTextStoredEmpty ==
    \A r \in resps :
        Questions[r.question_id].question_type = "text" =>
            /\ r.answer.t # "null"
            /\ ~Questions[r.question_id].required =>
                   ~(IsStr(r.answer) /\ r.answer.ws)

\* the body of the last answer, a get_event_rsvp_stats result
StatsBody == CHOOSE b \in last.body : TRUE
StatsEvent == EventByToken(last.inv)[1]
\* the submissions of the event's survey that carry the response r
Responded(r) ==
    {s \in DOMAIN subs : subs[s].survey_id = StatsEvent.survey_id
                          /\ subs[s].rsvp_response = r}
Headcount(s) == IF subs[s].num_attendees = None THEN 1 ELSE subs[s].num_attendees[1]
RECURSIVE Heads(_)
Heads(ids) ==
    IF ids = {} THEN 0
    ELSE LET s == CHOOSE x \in ids : TRUE IN Headcount(s) + Heads(ids \ {s})

\* C18: in a get_event_rsvp_stats result, yes_count, no_count and maybe_count
\* are the numbers of submissions of the event's survey with that response,
\* yes_attendees and maybe_attendees are the sums of their num_attendees with
\* a null counted as 1, and total_rsvps is the sum of the three counts;
\* submissions without a response or of another survey are counted nowhere.
C18_StatsCounts ==
    (last.op = "get_event_rsvp_stats" /\ last.status = 200) =>
        /\ StatsBody.yes_count = Cardinality(Responded("yes"))
        /\ StatsBody.no_count = Cardinality(Responded("no"))
        /\ StatsBody.maybe_count = Cardinality(Responded("maybe"))
        /\ StatsBody.yes_attendees = Heads(Responded("yes"))
        /\ StatsBody.maybe_attendees = Heads(Responded("maybe"))
        /\ StatsBody.total_rsvps = Cardinality(Responded("yes"))
                                    + Cardinality(Responded("no"))
                                    + Cardinality(Responded("maybe"))

\* two YES submissions with 2 and with null attendees count as 2 and 3,
\* next to a submission of the other survey
C18_Witness ==
    /\ last.op = "get_event_rsvp_stats" /\ last.status = 200
    /\ \E s, t \in Responded("yes") :
           subs[s].num_attendees = Some(2) /\ subs[t].num_attendees = None
    /\ \E u \in DOMAIN subs : subs[u].survey_id # StatsEvent.survey_id
    /\ StatsBody.yes_count = 2 /\ StatsBody.yes_attendees = 3
    /\ StatsBody.total_rsvps = 2

CountKeys ==
    {"total_rsvps", "yes_count", "yes_attendees", "no_count", "maybe_count",
     "maybe_attendees"}
Entries(r) ==
    {[submission |-> s, name |-> subs[s].identity, num_attendees |-> Headcount(s)] :
        s \in Responded(r)}

\* C19: a get_event_rsvp_stats result has the key attendees iff the event's
\* show_rsvp_list is set.  Without it the result holds counts only; with it
\* the lists hold one (identity, num_attendees or 1) entry per YES and per
\* MAYBE submission and none for a NO submission.
C19_AttendeesOnlyWhenShown ==
    (last.op = "get_event_rsvp_stats" /\ last.status = 200) =>
        /\ "attendees" \in DOMAIN StatsBody <=> StatsEvent.show_rsvp_list
        /\ ~StatsEvent.show_rsvp_list =>
               /\ DOMAIN StatsBody = CountKeys \cup {"show_rsvp_list"}
               /\ \A k \in CountKeys : StatsBody[k] \in Nat
               /\ StatsBody.show_rsvp_list = FALSE
        /\ StatsEvent.show_rsvp_list =>
               /\ DOMAIN StatsBody.attendees = {"yes", "maybe"}
               /\ StatsBody.attendees.yes = Entries("yes")
               /\ StatsBody.attendees.maybe = Entries("maybe")
               /\ \A e \in StatsBody.attendees.yes \cup StatsBody.attendees.maybe :
                      subs[e.submission].rsvp_response # "no"

\* an event that hides its list answered with counts of a YES submission
\* and no attendees key
C19_Witness ==
    /\ last.op = "get_event_rsvp_stats" /\ last.status = 200
    /\ ~StatsEvent.show_rsvp_list
    /\ Responded("yes") # {}
    /\ "attendees" \notin DOMAIN StatsBody

\* C20: a delete_rsvp answered 204 removed a submission of that event's
\* survey together with all its answer rows and nothing else, and one
\* answered 404 removed nothing; a submission that is gone stays gone with
\* its answers; the admin list and the statistics show existing submissions
\* only; and get_my_rsvp and update_rsvp answer the edit token of a
\* submission that is gone with 404 (update_rsvp with 422 when the schema
\* refuses the body before the handler runs).
C20_DeletedIsGone ==
    [][/\ (nops' # nops /\ last'.op = "delete_rsvp") =>
              IF last'.status = 204
              THEN LET rsvp_id == last'.sid[1] IN
                   /\ rsvp_id \in DOMAIN subs
                   /\ EventByToken(last'.inv) # None
                   /\ subs[rsvp_id].survey_id = EventByToken(last'.inv)[1].survey_id
                   /\ DOMAIN subs' = DOMAIN subs \ {rsvp_id}
                   /\ \A x \in DOMAIN subs' : subs'[x] = subs[x]
                   /\ resps' = {r \in resps : r.submission_id # rsvp_id}
              ELSE last'.status = 404 /\ subs' = subs /\ resps' = resps
       /\ \A s \in 1..subSeq :
              s \notin DOMAIN subs =>
                  (s \notin DOMAIN subs' /\ \A r \in resps' : r.submission_id # s)
       /\ (last'.op = "get_event_rsvps" /\ last'.status = 200) =>
              \A b \in last'.body : b.id \in DOMAIN subs'
       /\ (last'.op = "get_event_rsvp_stats" /\ last'.status = 200) =>
              \A b \in last'.body :
                  b.total_rsvps =
                      Cardinality({s \in DOMAIN subs' :
                          /\ subs'[s].survey_id = EventByToken(last'.inv)[1].survey_id
                          /\ subs'[s].rsvp_response # NULL})
       /\ (/\ nops' # nops
           /\ last'.op \in {"get_my_rsvp", "update_rsvp"}
           /\ last'.tok \in DOMAIN owner
           /\ owner[last'.tok] \notin DOMAIN subs) =>
              \/ last'.status = 404
              \/ last'.op = "update_rsvp" /\ last'.status = 422]_vars

\* the only submission ever created had answers, was deleted with them, and
\* its edit token was then answered 404 by get_my_rsvp
C20_Witness ==
    /\ last.op = "get_my_rsvp" /\ last.status = 404
    /\ last.tok \in DOMAIN owner /\ owner[last.tok] \notin DOMAIN subs
    /\ subSeq = 1 /\ respSeq > 0
    /\ subs = << >> /\ resps = {}

\* C21: the plaintext edit token is never stored and never logged: a
\* submission row holds the bcrypt hash, and no log record written by
\* submit_rsvp or by its confirmation e-mail task contains the plaintext of
\* a token, under every setting of the environment.
C21_TokenNeverLogged ==
    /\ \A s \in DOMAIN subs :
           subs[s].edit_token_hash # None =>
               DOMAIN subs[s].edit_token_hash[1] = {"salt", "digest"}
    /\ \A record \in log : record.edit_token = None

\* C22: no request changes the survey_id, the submitted_at or the
\* edit_token_hash of an existing submission, and no id is given twice; a
\* submission created by submit_rsvp has a hash, one created by
\* submit_survey_responses has none, and get_my_rsvp and update_rsvp only
\* ever reach a submission that has a hash.
C22_UpdateKeepsIdentityColumns ==
    [][/\ \A s \in DOMAIN subs \cap DOMAIN subs' :
              /\ subs'[s].survey_id = subs[s].survey_id
              /\ subs'[s].submitted_at = subs[s].submitted_at
              /\ subs'[s].edit_token_hash = subs[s].edit_token_hash
       /\ \A s \in DOMAIN subs' \ DOMAIN subs :
              /\ s > subSeq
              /\ last'.op \in Creates
              /\ subs'[s].edit_token_hash = None <=> last'.op = "submit_survey_responses"
       /\ (/\ nops' # nops
           /\ last'.op \in {"get_my_rsvp", "update_rsvp"}
           /\ last'.status = 200) =>
              /\ last'.sid[1] \in DOMAIN subs
              /\ subs[last'.sid[1]].edit_token_hash # None]_vars

\* an update_rsvp succeeded on a submission next to one that
\* submit_survey_responses created, and both kept their creation time
C22_Witness ==
    /\ last.op = "update_rsvp" /\ last.status = 200
    /\ \E s \in DOMAIN subs : subs[s].edit_token_hash = None
    /\ subs[last.sid[1]].edit_token_hash # None
    /\ subs[last.sid[1]].identity = "Bob"
    /\ \A s \in DOMAIN subs : subs[s].submitted_at = s

\* the answer map of a request, found by its keys: the maps of AnswerMaps
\* have distinct sets of keys
SentMap(request) ==
    IF request.qids = None THEN None
    ELSE Some(CHOOSE m \in AnswerMaps : Keys(m) = request.qids[1])
\* the update_rsvp request served last, applied once more to the state it left
Again ==
    UpdateRsvpOutcome(EventByToken(last.inv)[1].survey_id, last.sid[1],
                      last.data[1], SentMap(last))
\* the (question_id, value) answers of a submission
AnswersOf(rs, sid) == {<<r.question_id, r.answer>> : r \in ResponsesOf(rs, sid)}

\* C23: an update_rsvp that succeeded, sent again with the same edit token,
\* RSVP fields and answer map, finds the same submission, succeeds again and
\* leaves the submission's RSVP fields and its set of (question_id, value)
\* answers as they are after the first call.
C23_UpdateIsIdempotent ==
    (last.op = "update_rsvp" /\ last.status = 200) =>
        LET sid == last.sid[1] IN
        /\ update_rsvp_matches(subs, EventByToken(last.inv)[1].survey_id, last.tok)
               = {sid}
        /\ Again.status = 200
        /\ Again.did_commit
        /\ RsvpFields(Again.work.subs[sid]) = RsvpFields(subs[sid])
        /\ AnswersOf(Again.work.resps, sid) = AnswersOf(resps, sid)

\* an update that replaced the RSVP fields and the answers of a submission
C23_Witness ==
    /\ last.op = "update_rsvp" /\ last.status = 200
    /\ last.qids # None
    /\ AnswersOf(resps, last.sid[1]) # {}
    /\ subs[last.sid[1]].num_attendees = Some(2)

\* C24: verify_edit_token(t', get_edit_token_hash(t)) is true iff t' = t for
\* every minted token t and every salt, and it is false for the empty
\* token, for no hash, for an empty hash and for a malformed hash.
C24_TokenRoundTrip ==
    verify.pc = "returned" =>
        /\ \A t \in MintedTokens, salt \in 1..MaxSalts :
               verify.stored_hash = Some(get_edit_token_hash(t, salt)) =>
                   (verify.result <=> verify.plain_token = t)
        /\ (\/ verify.plain_token = 0
            \/ verify.stored_hash \in {None, Some(EmptyHash), Some(MalformedHash)}) =>
               ~verify.result

\* the second minted token was refused against the hash of the first
C24_Witness ==
    /\ verify.pc = "returned"
    /\ verify.plain_token = generate_edit_token(1)
    /\ verify.stored_hash = Some(get_edit_token_hash(generate_edit_token(0), 1))
    /\ ~verify.result

\* C25: for every limiter and client, the call that follows max_requests
\* allowed calls is allowed only a full window after the first of them, so
\* no interval shorter than the window holds more than max_requests allowed
\* calls (100 for rate_limiter, 5 for login_rate_limiter, whatever the
\* logins answered); the recorded timestamps are those of the latest allowed
\* calls, so a refused call recorded nothing; and a call made when the oldest
\* recorded timestamp is a window old is allowed.
Allowed(name, client_ip) ==
    SelectSeq(history[name][client_ip], LAMBDA c : c.allowed)

C25_SlidingWindow ==
    \A name \in LimiterNames : \A client_ip \in ClientIPs :
        LET allowed == Allowed(name, client_ip)
            recorded == limiter[name][client_ip]
            calls == history[name][client_ip]
            max_requests == Limiters[name].max_requests
            window_seconds == Limiters[name].window_seconds
        IN  /\ \A i \in 1..(Len(allowed) - max_requests) :
                   allowed[i + max_requests].at - allowed[i].at >= window_seconds
            /\ Len(recorded) <= Len(allowed)
            /\ \A i \in 1..Len(recorded) :
                   recorded[i] = allowed[Len(allowed) - Len(recorded) + i].at
            /\ \A i \in 1..Len(calls) :
                   LET before == SelectSeq(SubSeq(calls, 1, i - 1), LAMBDA c : c.allowed)
                       live == SelectSeq(before,
                                   LAMBDA c : calls[i].at - c.at < window_seconds)
                   IN  (Len(live) < max_requests) = calls[i].allowed

\* a client sent 100 requests at once, was refused the 101st, and is served
\* again when the clock reads a window later
C25_Witness ==
    \E client_ip \in ClientIPs :
        LET calls == history["rate_limiter"][client_ip]
        IN  /\ Len(calls) = RATE_LIMIT_MAX_REQUESTS + 2
            /\ ~calls[RATE_LIMIT_MAX_REQUESTS + 1].allowed
            /\ calls[RATE_LIMIT_MAX_REQUESTS + 2].allowed
            /\ calls[RATE_LIMIT_MAX_REQUESTS + 2].at - calls[1].at
                   = RATE_LIMIT_WINDOW_SECONDS
            /\ last.op = "dispatch"
            /\ last.status = 200

\* C26: a request to create an event that is answered 201 added exactly one
\* event, whose survey_id is the id of a survey in the table: the survey the
\* request named (and then no survey and no question was added), or one new
\* survey holding as many questions as the request supplied; a request
\* answered otherwise left the three tables as they were; a request naming a
\* survey together with a description or questions is answered 400, and one
\* naming a survey that does not exist is answered 404.
Tables(cat) == <<cat.events, cat.surveys, cat.questions>>

C26_CreateEventAllOrNothing ==
    [][(last'.op = "create_event" /\ nops' = nops + 1) =>
        LET event_data == last'.data[1]
            events == catalog'.events \ catalog.events
            surveys == {sv \in catalog'.surveys :
                           \A old \in catalog.surveys : old.id # sv.id}
            questions == catalog'.questions \ catalog.questions
            named == event_data.survey_id # None
            mixed == named /\ (\/ Truthy(event_data.survey_description)
                               \/ Len(event_data.survey_questions) > 0)
            missing == named /\ \A sv \in catalog.surveys :
                                    sv.id # event_data.survey_id[1]
        IN  /\ (last'.status = 400) = mixed
            /\ (last'.status = 404) = (missing /\ ~mixed)
            /\ IF last'.status = 201
               THEN /\ Cardinality(events) = 1
                    /\ catalog.events \subseteq catalog'.events
                    /\ \A e \in events :
                           /\ \E sv \in catalog'.surveys : sv.id = e.survey_id
                           /\ IF named
                              THEN /\ e.survey_id = event_data.survey_id[1]
                                   /\ surveys = {} /\ questions = {}
                              ELSE /\ surveys = {sv \in catalog'.surveys :
                                                    sv.id = e.survey_id}
                                   /\ Cardinality(surveys) = 1
                                   /\ Cardinality(questions)
                                          = Len(event_data.survey_questions)
                                   /\ \A q \in questions : q.survey_id = e.survey_id
               ELSE Tables(catalog') = Tables(catalog)]_vars

\* C27: in every committed state every answer row belongs to a submission
\* row and to a question row, and the question is one of the survey of the
\* submission.
C27_AnswersReferToRows ==
    \A r \in resps :
        /\ r.submission_id \in DOMAIN subs
        /\ \E q \in catalog.questions :
               /\ q.id = r.question_id
               /\ q.survey_id = subs[r.submission_id].survey_id

\* a survey was deleted after its event, and took its submissions and their
\* answers with it
C27_Witness ==
    /\ last.op = "delete_survey"
    /\ last.status = 204
    /\ subSeq > 0
    /\ respSeq > 0
    /\ subs = << >>
    /\ resps = {}

\* C28: an update_rsvp answered 200 whose body had no answer map left every
\* answer row as it was and changed no column of the submission but the six
\* RSVP fields; one whose body had an empty answer map left the submission
\* without answer rows, inserted none, and left the answer rows of the other
\* submissions as they were.
C28_AbsentMapKeepsEmptyMapClears ==
    [][(/\ nops' = nops + 1
        /\ last'.op = "update_rsvp"
        /\ last'.status = 200) =>
           LET sid == last'.sid[1]
           IN  /\ last'.qids = None =>
                      /\ resps' = resps
                      /\ respSeq' = respSeq
                      /\ DOMAIN subs' = DOMAIN subs
                      /\ \A s \in DOMAIN subs \ {sid} : subs'[s] = subs[s]
                      /\ \A c \in DOMAIN subs[sid] \
                                  {"identity", "rsvp_response", "num_attendees",
                                   "email", "phone", "comment"} :
                             subs'[sid][c] = subs[sid][c]
               /\ last'.qids = Some({}) =>
                      /\ ResponsesOf(resps', sid) = {}
                      /\ resps' = resps \ ResponsesOf(resps, sid)
                      /\ respSeq' = respSeq]_vars

\* the only submission, made with one answer, was updated with an empty
\* answer map and has no answer row left
C28_Witness ==
    /\ last.op = "update_rsvp"
    /\ last.status = 200
    /\ last.qids = Some({})
    /\ respSeq = 1
    /\ resps = {}
    /\ DOMAIN subs = {1}

\* ---- C29
\* C29: every get_event_rsvp_stats result is one consistent snapshot of the
\* committed submissions, also when update_rsvp or submit_rsvp requests
\* commit while it is computed: no submission is counted in two of the
\* partitions, and total_rsvps is the number of RSVP submissions of the
\* survey at some moment of the call.  Rows are only added here, one at a
\* time, so the numbers at moments of the call are those from the number at
\* the first query to the number at the last.
C29_StatsAreOneSnapshot ==
    [][(stats.pc = "no" /\ stats'.pc = "idle")
       => LET survey_id == stats.event[1].survey_id
              body == CHOOSE b \in last'.body : TRUE
          IN  /\ DOMAIN stats.yes \cap WithResponse(subs, survey_id, "maybe") = {}
              /\ body.total_rsvps >= stats.first
              /\ body.total_rsvps <= Cardinality(RsvpSubmissions(subs, survey_id))]_vars

\* ---- C30
AdminsCode(access_code, stored_hash) ==
    /\ access_code # None
    /\ ~access_code[1].b64
    /\ access_code[1].n > 0
    /\ get_access_code_hash(access_code[1], stored_hash.salt) = stored_hash

\* C30: for an event whose access code was set through the admin API,
\* get_event_by_token, get_event_rsvp_stats and submit_rsvp succeed only
\* with the code the admin set; a request with any other string, the stored
\* hash string included, is answered 403 (422 when its body is invalid),
\* and a rejected submit_rsvp creates no submission.
C30_OnlyTheAdminsCodeOpens ==
    [][(/\ last'.op \in {"get_event_by_token", "get_event_rsvp_stats", "submit_rsvp"}
        /\ EventByToken(last'.inv) # None
        /\ EventByToken(last'.inv)[1].access_code # None)
       => \/ AdminsCode(last'.data[1].access_code, EventByToken(last'.inv)[1].access_code[1])
          \/ /\ last'.status \in {403, 422}
             /\ subs' = subs
             /\ resps' = resps]_vars

====
